---- MODULE Spec2Model ----
(***************************************************************************)
(* Model of the TIFF batch converter (notacool/grupoapi-cambioformato-     *)
(* imagenes).                                                              *)
(*                                                                         *)
(* Spec      the orchestrator: main.py and TIFFConverter.convert_directory *)
(*           with _process_subfolder, _run_postconverters_for_subfolder    *)
(*           and _generate_final_result (src/src/converter.py).            *)
(* ConsSpec  the document consolidator                                     *)
(*           (src/src/postconverters/consolidated_pdf_postconverter.py).   *)
(* MetSpec   the metadata aggregator                                       *)
(*           (src/src/postconverters/met_format_postconverter.py).         *)
(* OcrSpec   the text layer of the searchable-document converter           *)
(*           (src/src/converters/pdf_easyocr_converter.py).                *)
(* LoopSpec  the task loop of _process_subfolder, one step per converter   *)
(*           call, with the interrupt handling of main.py.                 *)
(* InvSpec   CommandInvoker (src/src/commands/command_pattern.py).         *)
(* MacroSpec MacroCommand (src/src/commands/command_pattern.py).           *)
(* BuildSpec ConfigBuilder (src/src/config_builder.py).                    *)
(* ConvSpec  PDFEasyOCRConverter.convert                                   *)
(*           (src/src/converters/pdf_easyocr_converter.py).                *)
(*                                                                         *)
(* External collaborators (codecs, OCR engine, file system permissions)    *)
(* are inputs: each call picks one of the results the callee can return.   *)
(***************************************************************************)
EXTENDS Integers, Sequences, FiniteSets, TLC

\* ------------------------------------------------------------------ bounds
MaxFolders == 2
MaxFiles == 2
MaxFormats == 2
MaxRuns == 2
MaxFaults == 1
MaxStems == 2
MaxConsFiles == 3
MaxConsFaults == 1
MaxMetFiles == 2
MaxMetFaults == 1
MaxSpans == 2
MaxConf == 2
MaxWorkers == 3
MaxLoopTasks == 4
MaxCommands == 2
MaxHistory == 3
MaxOps == 6
MaxSub == 3
MaxBuilderOps == 4

VARIABLES
    \* --- orchestrator: inputs of the run
    entry,                  \* "cli": main() of main.py; "api": convert_directory called directly
    rootKind,               \* what input_dir is: "noarg", "missing", "file", "dir"
    nfolders,               \* number of eligible folders under the root (tiff_folders)
    nfiles,                 \* nfiles[f]: number of source files in folder f (tiff_files)
    postconverters,         \* self.postconverters: names in dict order
    cfg_formats,            \* number of formats left by the filter of lines 141-154
    cfg_overwrite,          \* processing.overwrite_existing of the configuration
    \* --- orchestrator: program state
    run,                    \* number of the current run over the same trees
    pc,                     \* position of the control flow
    formats,                \* len(formats) after filtering; formats are 1..formats
    overwrite,              \* processing_config["overwrite_existing"]
    cur,                    \* folder of the current iteration of the for loop
    fi,                     \* index of tiff_file in tiff_files
    fj,                     \* index of format_name in formats
    pidx,                   \* index in self.postconverters
    successful_conversions,
    failed_conversions,
    conversion_results,     \* file_processor's results per folder (add_conversion_result)
    subfolder_results,
    error_report,
    result,                 \* value returned by convert_directory
    exitStatus,             \* process exit status of main(): -1 while running
    fs,                     \* fs[task]: "absent", "kept" (from an earlier
                            \* run) or "written" (by the current run)
    agg,                    \* agg[<<f, p>>]: folder-level artifact of postconverter p
    structure,              \* folders whose output structure exists
    logging,                \* output_manager.enable_file_logging was called
    \* --- orchestrator: history
    fs0,                    \* fs at the start of the current run
    agg0,                   \* agg at the start of the current run
    convCalls,              \* convCalls[task]: converter.convert calls in this run
    examined,               \* examined[f]: loop iterations of folder f completed in this run
    postRuns,               \* postRuns[f]: postconverter.process calls for f in this run
    faults,                 \* failures injected so far
    \* --- consolidator: inputs
    c_dir,                  \* names of the TIFF files in the folder's TIFF directory
    c_ci,                   \* the file system matches glob patterns case-insensitively
    c_max_size_mb,          \* self.max_size_mb
    c_pypdf,                \* PyPDF2 can be imported
    c_compress,             \* self.pdf_compressor.enabled
    c_conversion_result,    \* files of c_dir whose searchable document was
                            \* produced by the batch (conversion_result)
    \* --- consolidator: program state
    c_pc,                   \* position in process / _consolidate_tiff_to_pdf
    c_files,                \* tiff_files after the sort of process()
    c_fpd,                  \* files_per_pdf
    c_i,                    \* start index of the current batch (1-based)
    c_r,                    \* index of the next file to render
    c_pdf_files,            \* pdf_files: paths of the temporary documents of the batch
    c_success_count,
    c_temp,                 \* c_temp[stem]: source rendered in temp_<stem>.pdf, or NoFile
    c_out,                  \* c_out[name]: pages (sources) of the output document
    c_result,               \* value returned by process(): "none" while running
    c_faults,               \* failures injected so far
    \* --- consolidator: history
    c_merged,               \* c_merged[name]: pages written by _merge_pdfs
    c_compression,          \* c_compression[name]: outcome of the compression pass
    \* --- metadata aggregator (METFormatPostConverter)
    m_files_info,           \* conversion_result["files_info"]: the folder's records
    m_pc,                   \* position in process
    m_conversion_results,   \* value of _prepare_conversion_results
    m_k,                    \* index in the format list of line 245
    m_results,              \* results of _create_format_specific_met_for_subfolder
    m_mets,                 \* m_mets[name]: sources referenced by METS/<name>.xml
    m_result,               \* value returned by process(): "none" while running
    m_faults,               \* failures injected so far
    \* --- searchable-document converter (PDFEasyOCRConverter)
    o_results,              \* ocr_results: what ocr_reader.readtext returns
    o_ocr_confidence,       \* self.ocr_confidence
    o_dpi,                  \* self.embed_target_dpi
    o_img,                  \* pil_img.size: <<width, height>> in pixels
    o_use_ocr,              \* use_ocr and create_searchable_pdf and ocr_reader
    o_pc,                   \* position in _create_pdf_with_easyocr
    o_page,                 \* pagesize of the canvas, in points
    o_text_elements,        \* value of _process_easyocr_results
    o_n,                    \* index of the next text element to draw
    o_canvas,               \* strings drawn on the canvas: text and position
    \* --- the task loop of a folder, one step per converter call
    w_max_workers,          \* max_workers of convert_directory
    w_ntasks,               \* number of tasks of the folder that reach the converter
    w_pc,                   \* position in main / _process_subfolder
    w_next,                 \* index of the next task of the loops
    w_running,              \* tasks whose converter.convert call has not returned
    w_outcomes,             \* outcomes recorded so far, in order
    w_interrupted,          \* a KeyboardInterrupt was raised
    w_report,               \* the results shown by main(), as a sequence
    w_exit,                 \* exit status of the process: -1 while running
    \* --- CommandInvoker
    k_max_history,          \* self.max_history
    k_history,              \* self.history
    k_undo_history,         \* self.undo_history
    k_last,                 \* the last call: method, command, result, lists before
    k_prev,                 \* the call before the last
    k_ops,                  \* number of calls made
    k_executed,             \* the commands execute_command accepted, in order
    k_moved,                \* an undo or a redo has changed the lists
    \* --- MacroCommand
    q_n,                    \* len(self.commands)
    q_execute,              \* q_execute[i]: what execute() of sub-command i does
    q_undo,                 \* q_undo[i]: what undo() of sub-command i does
    q_pc,                   \* position in MacroCommand.execute / undo
    q_i,                    \* index of the sub-command the loop of execute is at
    q_executed,             \* self.executed_commands
    q_pending,              \* sub-commands still to be undone by the running loop
    q_calls,                \* the calls made on sub-commands, in order
    q_result,               \* value returned by execute(): "none" while running
    q_undo_result,          \* value returned by undo(): "none" before it returns
    \* --- ConfigBuilder
    b_current_format,       \* self._current_format: "None" before add_format
    b_formats,              \* self.config['formats']: name -> enabled, quality
    b_current_postconverter,\* self._current_postconverter
    b_postconverters,       \* self.config['postconverters']: name -> enabled
    b_rejected,             \* set_format_quality was called with a value outside 1..100
    b_validate,             \* value of the last validate(): "none" before any
    b_build,                \* outcome of the last build(): "none" before any
    b_ops,                  \* number of calls made
    \* --- PDFEasyOCRConverter.convert
    v_valid_input,          \* value of validate_input(input_path)
    v_directory,            \* value of create_output_directory(output_path)
    v_engine,               \* the recognition engine: "ready", "missing" or "unused"
    v_create,               \* what _create_pdf_with_easyocr does
    v_enabled,              \* compression.enabled of the configuration
    v_compress,             \* what pdf_compressor.compress does
    v_pc,                   \* position in convert
    v_pdf,                  \* the document at output_path
    v_result                \* value returned by convert: "none" while running

vars == <<entry, rootKind, nfolders, nfiles, postconverters, cfg_formats,
          cfg_overwrite, run, pc, formats,
          overwrite, cur, fi, fj, pidx, successful_conversions,
          failed_conversions, conversion_results, subfolder_results,
          error_report, result, exitStatus, fs, agg, structure, logging,
          fs0, agg0, convCalls, examined, postRuns, faults,
          c_dir, c_ci, c_max_size_mb, c_pypdf, c_compress, c_pc, c_files,
          c_fpd, c_i, c_r, c_pdf_files, c_success_count, c_temp, c_out,
          c_conversion_result, c_result, c_faults, c_merged, c_compression,
          m_files_info, m_pc, m_conversion_results, m_k, m_results, m_mets,
          m_result, m_faults,
          o_results, o_ocr_confidence, o_dpi, o_img, o_use_ocr, o_pc, o_page,
          o_text_elements, o_n, o_canvas,
          w_max_workers, w_ntasks, w_pc, w_next, w_running, w_outcomes,
          w_interrupted, w_report, w_exit,
          k_max_history, k_history, k_undo_history, k_last, k_prev, k_ops,
          k_executed, k_moved,
          q_n, q_execute, q_undo, q_pc, q_i, q_executed, q_pending, q_calls, q_result, q_undo_result,
          b_current_format, b_formats, b_current_postconverter, b_postconverters, b_rejected, b_validate, b_build, b_ops,
          v_valid_input, v_directory, v_engine, v_create, v_enabled, v_compress, v_pc, v_pdf, v_result>>

orchVars == <<entry, rootKind, nfolders, nfiles, postconverters,
              cfg_formats, cfg_overwrite, run, pc, formats, overwrite, cur, fi, fj, pidx, successful_conversions,
              failed_conversions, conversion_results, subfolder_results,
              error_report, result, exitStatus, fs, agg, structure, logging,
              fs0, agg0, convCalls, examined, postRuns, faults>>

consInputs == <<c_dir, c_ci, c_max_size_mb, c_pypdf, c_compress,
                c_conversion_result>>

consVars == <<c_dir, c_ci, c_max_size_mb, c_pypdf, c_compress, c_pc, c_files,
              c_fpd, c_i, c_r, c_pdf_files, c_success_count, c_temp, c_out,
              c_conversion_result, c_result, c_faults, c_merged,
              c_compression>>

metVars == <<m_files_info, m_pc, m_conversion_results, m_k, m_results, m_mets,
             m_result, m_faults>>

ocrInputs == <<o_results, o_ocr_confidence, o_dpi, o_img, o_use_ocr>>

ocrVars == <<o_results, o_ocr_confidence, o_dpi, o_img, o_use_ocr, o_pc,
             o_page, o_text_elements, o_n, o_canvas>>

loopVars == <<w_max_workers, w_ntasks, w_pc, w_next, w_running, w_outcomes,
              w_interrupted, w_report, w_exit>>

invVars == <<k_max_history, k_history, k_undo_history, k_last, k_prev, k_ops,
             k_executed, k_moved>>

macroVars == <<q_n, q_execute, q_undo, q_pc, q_i, q_executed, q_pending, q_calls, q_result, q_undo_result>>

buildVars == <<b_current_format, b_formats, b_current_postconverter, b_postconverters, b_rejected, b_validate, b_build, b_ops>>

convVars == <<v_valid_input, v_directory, v_engine, v_create, v_enabled, v_compress, v_pc, v_pdf, v_result>>

\* what the actions of the orchestrator leave alone
outsideOrch == <<consVars, metVars, ocrVars, loopVars, invVars, macroVars,
                 buildVars, convVars>>

\* what the actions of the consolidator leave alone
outsideCons == <<orchVars, metVars, ocrVars, loopVars, invVars, macroVars,
                 buildVars, convVars>>

\* what the actions of the metadata aggregator leave alone
outsideMet == <<orchVars, consVars, ocrVars, loopVars, invVars, macroVars,
                buildVars, convVars>>

\* what the actions of the searchable-document converter leave alone
outsideOcr == <<orchVars, consVars, metVars, loopVars, invVars, macroVars,
                buildVars, convVars>>

\* what the steps of the task loop leave alone
outsideLoop == <<orchVars, consVars, metVars, ocrVars, invVars, macroVars,
                 buildVars, convVars>>

\* what the methods of CommandInvoker leave alone
outsideInv == <<orchVars, consVars, metVars, ocrVars, loopVars, macroVars,
                buildVars, convVars>>

\* what the steps of MacroCommand leave alone
outsideMacro == <<orchVars, consVars, metVars, ocrVars, loopVars, invVars,
                  buildVars, convVars>>

\* what the methods of ConfigBuilder leave alone
outsideBuild == <<orchVars, consVars, metVars, ocrVars, loopVars, invVars,
                  macroVars, convVars>>

\* what the steps of PDFEasyOCRConverter.convert leave alone
outsideConv == <<orchVars, consVars, metVars, ocrVars, loopVars, invVars,
                 macroVars, buildVars>>

inputVars == <<entry, rootKind, nfolders, nfiles, postconverters, cfg_formats,
              cfg_overwrite>>

Folders == 1..MaxFolders
Files == 1..MaxFiles
Formats == 1..MaxFormats
PostNames == {"met_format", "consolidated_pdf"}
TaskIds == Folders \X Files \X Formats
AggIds == Folders \X PostNames

EmptyFun == [x \in {} |-> 0]

Stems == 1..MaxStems
Exts == {1, 2}
Names == Stems \X Exts
NoFile == <<0, 0>>

\* ----------------------------------------------------- src/src/converter.py

\* TIFFConverter._initialize_postconverters: met_format first, then
\* consolidated_pdf, each only when enabled in the configuration
InitializePostconverters(met, cons) ==
    (IF met THEN <<"met_format">> ELSE <<>>) \o
    (IF cons THEN <<"consolidated_pdf">> ELSE <<>>)

\* the early-return dictionaries of convert_directory
FailureResult(err) ==
    [success |-> FALSE, error |-> err, subfolders_processed |-> 0,
     subfolders_successful |-> 0, subfolders_failed |-> 0]

NoResult == [success |-> FALSE, error |-> "none", subfolders_processed |-> -1,
             subfolders_successful |-> -1, subfolders_failed |-> -1]

\* variant: the root is not checked at all
ScanRaises_unchecked(kind) == FALSE

\* FileProcessor._scan_tiff_files raises ValueError unless the root is a directory
ScanRaises(kind) == kind # "dir"

\* variant: an existing file is never refused
ValidateExisting_always(exists, ow) == TRUE

\* FileProcessor.validate_output_path, first branch: an existing file is
\* refused unless overwrite is set
ValidateExisting(exists, ow) == ~(exists /\ ~ow)

\* TIFFConverter._generate_final_result
GenerateFinalResultValue(sr, er) ==
    [success |-> Cardinality(DOMAIN sr) > 0,
     error |-> "absent",
     subfolders_processed |-> Cardinality(DOMAIN sr) + Cardinality(er),
     subfolders_successful |-> Cardinality(DOMAIN sr),
     subfolders_failed |-> Cardinality(er)]


\* variant: the loops are left after the first format of the last file
LastTask_early(i, j, n, m) == i = n

\* the nested loops of _process_subfolder end after the last format of the last file
LastTask(i, j, n, m) == i = n /\ j = m

\* variant: the try block encloses the loops, so an exception ends them
AfterTaskPc_abort(outcome, last) ==
    IF last \/ outcome = "raise" THEN "ret" ELSE "task"

\* position after one iteration of the loops: an exception of converter.convert
\* is caught inside the iteration (try/except of lines 306-339), so the loop goes on
AfterTaskPc(outcome, last) == IF last THEN "ret" ELSE "task"

\* convert_directory runs the postconverters of a folder only for a successful
\* subfolder_result and a non-empty self.postconverters
PostconvertersDue(sr_success, posts) == sr_success /\ posts # <<>>

\* a task loop that passes over a refused output path without counting it
CountSkipped_uncounted(failed) == failed

\* _process_subfolder lines 300-303: a task whose output path is refused is
\* counted as failed
CountSkipped(failed) == failed + 1

\* result dictionaries of _process_subfolder
EmptySubfolderResult ==
    [success |-> FALSE, files_processed |-> 0,
     conversions_successful |-> 0, conversions_failed |-> 0]

SubfolderResult(n, ok, ko) ==
    [success |-> TRUE, files_processed |-> n,
     conversions_successful |-> ok, conversions_failed |-> ko]

\* the dictionary handed to file_processor.add_conversion_result
ConversionRecord(file, format, ok, err) ==
    [input_file |-> file, format |-> format, success |-> ok, error |-> err]

\* FileProcessor.add_conversion_result / get_conversion_results: results are
\* kept per folder, in the order they were added
AddConversionResult(cr, f, rec) == [cr EXCEPT ![f] = Append(@, rec)]

\* ----------------------------------------------------------------- Init

\* number of source files in the whole input tree (len(self.tiff_files))
RECURSIVE TotalUpTo(_, _)
TotalUpTo(nf, k) == IF k = 0 THEN 0 ELSE nf[k] + TotalUpTo(nf, k - 1)
Total(nf) == TotalUpTo(nf, Len(nf))

RunStart ==
    /\ formats = 0
    /\ overwrite = FALSE
    /\ cur = 0 /\ fi = 0 /\ fj = 0 /\ pidx = 0
    /\ successful_conversions = 0
    /\ failed_conversions = 0
    /\ conversion_results = [f \in Folders |-> <<>>]
    /\ subfolder_results = EmptyFun
    /\ error_report = {}
    /\ result = NoResult
    /\ exitStatus = -1
    /\ convCalls = [t \in TaskIds |-> 0]
    /\ examined = [f \in Folders |-> 0]
    /\ postRuns = [f \in Folders |-> <<>>]

ConsCanFail == c_faults < MaxConsFaults

ConsRunning ==
    /\ c_pc = "start"
    /\ c_files = <<>>
    /\ c_fpd = 0 /\ c_i = 0 /\ c_r = 0
    /\ c_pdf_files = <<>>
    /\ c_success_count = 0
    /\ c_temp = [st \in Stems |-> NoFile]
    /\ c_out = EmptyFun
    /\ c_result = "none"
    /\ c_faults = 0
    /\ c_merged = EmptyFun
    /\ c_compression = EmptyFun

\* the consolidator is not part of the behaviours of Spec
ConsIdle ==
    /\ c_dir = {} /\ c_ci = FALSE /\ c_max_size_mb = 10
    /\ c_pypdf = TRUE /\ c_compress = FALSE
    /\ c_conversion_result = {}
    /\ ConsRunning

MetRunning ==
    /\ m_pc = "start"
    /\ m_conversion_results = <<>>
    /\ m_k = 0
    /\ m_results = EmptyFun
    /\ m_mets = EmptyFun
    /\ m_result = "none"
    /\ m_faults = 0

\* the metadata aggregator is not part of the behaviours of Spec and ConsSpec
MetIdle ==
    /\ m_files_info = <<>>
    /\ MetRunning

OcrRunning ==
    /\ o_pc = "create"
    /\ o_page = <<>>
    /\ o_text_elements = <<>>
    /\ o_n = 0
    /\ o_canvas = <<>>

\* the searchable-document converter is part of the behaviours of OcrSpec only
OcrIdle ==
    /\ o_results = <<>> /\ o_ocr_confidence = 0 /\ o_dpi = 0
    /\ o_img = <<0, 0>> /\ o_use_ocr = FALSE
    /\ OcrRunning

LoopRunning ==
    /\ w_pc = "loop"
    /\ w_next = 1
    /\ w_running = {}
    /\ w_outcomes = <<>>
    /\ w_interrupted = FALSE
    /\ w_report = <<>>
    /\ w_exit = -1

\* the converter calls are single steps in the other specifications
LoopIdle ==
    /\ w_max_workers = 1 /\ w_ntasks = 0
    /\ LoopRunning

NoCall == [method |-> "none", command |-> 0, result |-> FALSE,
           history |-> <<>>, undo_history |-> <<>>]

\* CommandInvoker.__init__
InvRunning ==
    /\ k_history = <<>>
    /\ k_undo_history = <<>>
    /\ k_last = NoCall
    /\ k_prev = NoCall
    /\ k_ops = 0
    /\ k_executed = <<>>
    /\ k_moved = FALSE

\* no CommandInvoker is used outside InvSpec
InvIdle ==
    /\ k_max_history = 100
    /\ InvRunning

\* MacroCommand.__init__
MacroRunning ==
    /\ q_pc = "idle"
    /\ q_i = 0
    /\ q_executed = <<>>
    /\ q_pending = <<>>
    /\ q_calls = <<>>
    /\ q_result = "none"
    /\ q_undo_result = "none"

\* no MacroCommand is used outside MacroSpec
MacroIdle ==
    /\ q_n = 0
    /\ q_execute = <<>>
    /\ q_undo = <<>>
    /\ MacroRunning

\* ConfigBuilder.__init__
BuildIdle ==
    /\ b_current_format = "None"
    /\ b_formats = EmptyFun
    /\ b_current_postconverter = "None"
    /\ b_postconverters = EmptyFun
    /\ b_rejected = FALSE
    /\ b_validate = "none"
    /\ b_build = "none"
    /\ b_ops = 0

\* convert has not been entered
ConvRunning ==
    /\ v_pc = "validate"
    /\ v_pdf = "absent"
    /\ v_result = "none"

\* the converter is a single step of the task loop outside ConvSpec
ConvIdle ==
    /\ v_valid_input = TRUE
    /\ v_directory = TRUE
    /\ v_engine = "unused"
    /\ v_create = "ok"
    /\ v_enabled = FALSE
    /\ v_compress = "ok"
    /\ ConvRunning

Init ==
    /\ entry \in {"cli", "api"}
    \* a direct call with a valid root goes on as the call made by main()
    /\ rootKind \in IF entry = "cli" THEN {"noarg", "missing", "file", "dir"}
                                     ELSE {"missing", "file"}
    /\ nfolders \in IF rootKind = "dir" THEN 0..MaxFolders ELSE {0}
    /\ nfiles \in {nf \in [1..nfolders -> 0..MaxFiles] : Total(nf) <= MaxFiles}
    /\ \E met \in BOOLEAN, cons \in BOOLEAN :
          postconverters = InitializePostconverters(met, cons)
    /\ cfg_formats \in IF nfolders = 0 THEN {0} ELSE 0..MaxFormats
    /\ cfg_overwrite \in IF nfolders = 0 THEN {FALSE} ELSE BOOLEAN
    /\ run = 1
    /\ pc = IF entry = "cli" THEN "main" ELSE "convert"
    /\ RunStart
    /\ fs = [t \in TaskIds |-> "absent"]
    /\ agg = [a \in AggIds |-> "absent"]
    /\ structure = {}
    /\ logging = FALSE
    /\ fs0 = fs
    /\ agg0 = agg
    /\ faults = 0
    /\ ConsIdle
    /\ MetIdle
    /\ OcrIdle
    /\ LoopIdle
    /\ InvIdle
    /\ MacroIdle
    /\ BuildIdle
    /\ ConvIdle

\* a failure of a collaborator may be injected while the budget lasts
CanFail == faults < MaxFaults
Cost(outcome, free) == IF outcome \in free THEN 0 ELSE 1

orchState == <<formats, overwrite, cur, fi, fj, pidx, successful_conversions,
               failed_conversions, conversion_results, subfolder_results,
               error_report, convCalls, examined, postRuns>>

\* ------------------------------------------------------------- main.py

\* main(): lines 84-92. Without --input/--output, or when
\* _validate_directories fails, main returns normally (exit status 0)
MainValidate ==
    /\ pc = "main"
    /\ IF rootKind \in {"noarg", "missing", "file"}
       THEN /\ pc' = "exit"
            /\ exitStatus' = 0
       ELSE /\ pc' = "convert"
            /\ exitStatus' = exitStatus
    /\ UNCHANGED <<inputVars, run, orchState, result, fs, agg, structure,
                   logging, fs0, agg0, faults>>
    /\ UNCHANGED outsideOrch

\* main(): lines 116-126 and 131-135. A result without success leads to
\* sys.exit(1), directly or through the KeyError of result['error']
MainExit ==
    /\ pc = "returned"
    /\ entry = "cli"
    /\ pc' = "exit"
    /\ exitStatus' = IF result.success THEN 0 ELSE 1
    /\ UNCHANGED <<inputVars, run, orchState, result, fs, agg, structure,
                   logging, fs0, agg0, faults>>
    /\ UNCHANGED outsideOrch

\* ------------------------------------------------ convert_directory

ReturnFailure(err) ==
    /\ result' = FailureResult(err)
    /\ pc' = "returned"
    /\ UNCHANGED <<formats, overwrite, cur, logging>>

\* convert_directory: lines 123-172
ConvertDirectory ==
    /\ pc = "convert"
    /\ IF ScanRaises(rootKind) THEN ReturnFailure("exception")
       ELSE IF nfolders = 0 THEN ReturnFailure("no_tiff_folders")
       ELSE \E specified \in BOOLEAN :
               IF specified /\ cfg_formats = 0 THEN ReturnFailure("no_converters")
               ELSE /\ formats' = cfg_formats
                    /\ overwrite' = cfg_overwrite
                    /\ logging' = TRUE
                    /\ cur' = 1
                    /\ pc' = "folder"
                    /\ result' = result
    /\ UNCHANGED <<inputVars, run, fi, fj, pidx, successful_conversions,
                   failed_conversions, conversion_results, subfolder_results,
                   error_report, exitStatus, fs, agg, structure, fs0, agg0,
                   convCalls, examined, postRuns, faults>>
    /\ UNCHANGED outsideOrch

\* the for loop of line 174 moves to the next folder, or leaves the loop
NextFolder ==
    /\ cur' = cur + 1
    /\ pc' = IF cur < nfolders THEN "folder" ELSE "final"

\* convert_directory lines 177-193 and _process_subfolder lines 262-287:
\* output structure, then the folder's file list
FolderStart ==
    /\ pc = "folder"
    /\ \E o \in {"ok", "false", "raise"} :
        /\ o # "ok" => CanFail
        /\ faults' = faults + Cost(o, {"ok"})
        /\ IF o # "ok"
           THEN /\ error_report' = error_report \cup {cur}
                /\ NextFolder
                /\ UNCHANGED <<structure, subfolder_results, fi, fj,
                               successful_conversions, failed_conversions>>
           ELSE /\ structure' = structure \cup {cur}
                /\ error_report' = error_report
                /\ IF nfiles[cur] = 0
                   THEN /\ subfolder_results' =
                              subfolder_results @@ (cur :> EmptySubfolderResult)
                        /\ pc' = "summary"
                        /\ UNCHANGED <<cur, fi, fj, successful_conversions,
                                       failed_conversions>>
                   ELSE /\ successful_conversions' = 0
                        /\ failed_conversions' = 0
                        /\ fi' = 1 /\ fj' = 1
                        /\ pc' = IF formats = 0 THEN "ret" ELSE "task"
                        /\ UNCHANGED <<cur, subfolder_results>>
    /\ UNCHANGED <<inputVars, run, formats, overwrite, pidx, conversion_results,
                   result, exitStatus, fs, agg, logging, fs0, agg0, convCalls,
                   examined, postRuns>>
    /\ UNCHANGED outsideOrch

\* one iteration of the loops of _process_subfolder, lines 290-341: output
\* path, validate_output_path, converter.convert, counters and
\* add_conversion_result
ProcessTask ==
    /\ pc = "task"
    /\ LET t == <<cur, fi, fj>>
           last == LastTask(fi, fj, nfiles[cur], formats)
           Advance(o) ==
               /\ examined' = [examined EXCEPT ![cur] = @ + 1]
               /\ pc' = AfterTaskPc(o, last)
               /\ fi' = IF fj < formats THEN fi ELSE fi + 1
               /\ fj' = IF fj < formats THEN fj + 1 ELSE 1
           Skip(o) ==
               /\ failed_conversions' = CountSkipped(failed_conversions)
               /\ Advance(o)
               /\ UNCHANGED <<successful_conversions, conversion_results,
                              convCalls, fs>>
       IN  IF ~ValidateExisting(fs[t] # "absent", overwrite)
           THEN Skip("exists") /\ faults' = faults
           ELSE \E o \in {"noperm", "ok", "fail", "raise"} :
                   /\ o # "ok" => CanFail
                   /\ faults' = faults + Cost(o, {"ok"})
                   /\ IF o = "noperm" THEN Skip(o)
                      ELSE /\ convCalls' = [convCalls EXCEPT ![t] = @ + 1]
                           /\ Advance(o)
                           /\ IF o = "ok"
                              THEN /\ fs' = [fs EXCEPT ![t] = "written"]
                                   /\ successful_conversions' =
                                          successful_conversions + 1
                                   /\ failed_conversions' = failed_conversions
                              ELSE /\ fs' = fs
                                   /\ failed_conversions' = failed_conversions + 1
                                   /\ successful_conversions' =
                                          successful_conversions
                           /\ conversion_results' =
                                  AddConversionResult(conversion_results, cur,
                                      ConversionRecord(fi, fj, o = "ok", o = "raise"))
    /\ UNCHANGED <<inputVars, run, formats, overwrite, cur, pidx,
                   subfolder_results, error_report, result, exitStatus, agg,
                   structure, logging, fs0, agg0, postRuns>>
    /\ UNCHANGED outsideOrch

\* _process_subfolder lines 343-350 and convert_directory lines 193-196:
\* the folder's result is stored, then the postconverters are run if due
ProcessSubfolderReturn ==
    /\ pc = "ret"
    /\ LET sr == SubfolderResult(nfiles[cur], successful_conversions,
                                 failed_conversions)
       IN  /\ subfolder_results' = subfolder_results @@ (cur :> sr)
           /\ IF PostconvertersDue(sr.success, postconverters)
              THEN pc' = "post" /\ pidx' = 1
              ELSE pc' = "summary" /\ pidx' = pidx
    /\ UNCHANGED <<inputVars, run, formats, overwrite, cur, fi, fj,
                   successful_conversions, failed_conversions,
                   conversion_results, error_report, result, exitStatus, fs,
                   agg, structure, logging, fs0, agg0, convCalls, examined,
                   postRuns, faults>>
    /\ UNCHANGED outsideOrch

\* one iteration of the loop of _run_postconverters_for_subfolder, lines
\* 374-392: postconverter.process writes the folder-level artifact, or returns
\* without writing it, or raises; all three are only logged
RunPostconverter ==
    /\ pc = "post"
    /\ LET name == postconverters[pidx]
       IN  \E o \in {"written", "notwritten", "raise"} :
              /\ o # "written" => CanFail
              /\ (o = "written" /\ name = "met_format")
                     => conversion_results[cur] # <<>>
              /\ faults' = faults + Cost(o, {"written"})
              /\ agg' = IF o = "written"
                        THEN [agg EXCEPT ![<<cur, name>>] = "written"] ELSE agg
              /\ postRuns' = [postRuns EXCEPT ![cur] = Append(@, <<name, o>>)]
    /\ IF pidx < Len(postconverters)
       THEN pidx' = pidx + 1 /\ pc' = "post"
       ELSE pidx' = pidx /\ pc' = "summary"
    /\ UNCHANGED <<inputVars, run, formats, overwrite, cur, fi, fj,
                   successful_conversions, failed_conversions,
                   conversion_results, subfolder_results, error_report, result,
                   exitStatus, fs, structure, logging, fs0, agg0, convCalls,
                   examined>>
    /\ UNCHANGED outsideOrch

\* convert_directory lines 204-212: the folder's summary is logged; an
\* exception there is caught by the handler of the folder's try block
FolderSummary ==
    /\ pc = "summary"
    /\ \E o \in {"ok", "raise"} :
          /\ o # "ok" => CanFail
          /\ faults' = faults + Cost(o, {"ok"})
          /\ error_report' = IF o = "raise" THEN error_report \cup {cur}
                                            ELSE error_report
    /\ NextFolder
    /\ UNCHANGED <<inputVars, run, formats, overwrite, fi, fj, pidx,
                   successful_conversions, failed_conversions,
                   conversion_results, subfolder_results, result, exitStatus,
                   fs, agg, structure, logging, fs0, agg0, convCalls, examined,
                   postRuns>>
    /\ UNCHANGED outsideOrch

\* convert_directory lines 214-227
GenerateFinalResult ==
    /\ pc = "final"
    /\ result' = GenerateFinalResultValue(subfolder_results, error_report)
    /\ pc' = "returned"
    /\ UNCHANGED <<inputVars, run, orchState, exitStatus, fs, agg, structure,
                   logging, fs0, agg0, faults>>
    /\ UNCHANGED outsideOrch

\* the program has ended: main() left (cli) or convert_directory returned (api)
Ended == pc = "exit" \/ (pc = "returned" /\ entry = "api")

\* the same command is run again over the same input and output trees
Rerun ==
    /\ Ended
    /\ run < MaxRuns
    /\ run' = run + 1
    /\ pc' = IF entry = "cli" THEN "main" ELSE "convert"
    /\ formats' = 0
    /\ overwrite' = FALSE
    /\ cur' = 0 /\ fi' = 0 /\ fj' = 0 /\ pidx' = 0
    /\ successful_conversions' = 0
    /\ failed_conversions' = 0
    /\ conversion_results' = [f \in Folders |-> <<>>]
    /\ subfolder_results' = EmptyFun
    /\ error_report' = {}
    /\ result' = NoResult
    /\ exitStatus' = -1
    /\ convCalls' = [t \in TaskIds |-> 0]
    /\ examined' = [f \in Folders |-> 0]
    /\ postRuns' = [f \in Folders |-> <<>>]
    /\ fs' = [t \in TaskIds |-> IF fs[t] = "absent" THEN "absent" ELSE "kept"]
    /\ agg' = [a \in AggIds |-> IF agg[a] = "absent" THEN "absent" ELSE "kept"]
    /\ fs0' = fs'
    /\ agg0' = agg'
    /\ UNCHANGED <<inputVars, structure, logging, faults>>
    /\ UNCHANGED outsideOrch

Next ==
    \/ MainValidate
    \/ ConvertDirectory
    \/ FolderStart
    \/ ProcessTask
    \/ ProcessSubfolderReturn
    \/ RunPostconverter
    \/ FolderSummary
    \/ GenerateFinalResult
    \/ MainExit
    \/ Rerun

Spec == Init /\ [][Next]_vars

\* =================== src/src/postconverters/consolidated_pdf_postconverter.py

\* a file name is <<stem, ext>>; ext 1 is ".tif", ext 2 is ".tiff". Names are
\* lower case, so name.lower() orders them by stem, then by extension
\* values of max_size_mb in the configuration
MaxSizes == {-4, 2, 6, 10}

Min(a, b) == IF a <= b THEN a ELSE b
Max(a, b) == IF a >= b THEN a ELSE b

\* int(x / y) of Python for y > 0: truncation towards zero
IntDiv(x, y) == IF x >= 0 THEN x \div y ELSE -((-x) \div y)

\* key=lambda x: x.name.lower()
NameBefore(a, b) == a[1] < b[1] \/ (a[1] = b[1] /\ a[2] < b[2])

\* the names of a set in ascending order
RECURSIVE Ascending(_)
Ascending(S) ==
    IF S = {} THEN <<>>
    ELSE LET m == CHOOSE x \in S : \A y \in S \ {x} : NameBefore(x, y)
         IN  <<m>> \o Ascending(S \ {m})

\* tiff_dir.glob("*" + ext) for one of the four patterns of
\* _get_tiff_files_from_subfolder: 1 ".tiff", 2 ".tif", 3 ".TIFF", 4 ".TIF"
Glob(dir, pattern, ci) ==
    Ascending({n \in dir :
        \/ pattern = 1 /\ n[2] = 2
        \/ pattern = 2 /\ n[2] = 1
        \/ pattern = 3 /\ n[2] = 2 /\ ci
        \/ pattern = 4 /\ n[2] = 1 /\ ci})

\* _get_tiff_files_from_subfolder: the matches of the four patterns, extended
\* one after the other
GetTiffFilesFromSubfolder(dir, ci) ==
    Glob(dir, 1, ci) \o Glob(dir, 2, ci) \o Glob(dir, 3, ci) \o Glob(dir, 4, ci)

\* list.sort(key=...) of process(): stable insertion by the key
RECURSIVE InsertByName(_, _)
InsertByName(sorted, x) ==
    IF sorted = <<>> THEN <<x>>
    ELSE IF NameBefore(x, Head(sorted)) THEN <<x>> \o sorted
    ELSE <<Head(sorted)>> \o InsertByName(Tail(sorted), x)

RECURSIVE SortByName(_)
SortByName(q) ==
    IF q = <<>> THEN <<>>
    ELSE InsertByName(SortByName(SubSeq(q, 1, Len(q) - 1)), q[Len(q)])

\* _calculate_files_per_pdf: max(1, int(self.max_size_mb / 3.0))
CalculateFilesPerPdf(max_size_mb) == Max(1, IntDiv(max_size_mb, 3))

\* output names: <folder>_consolidated.pdf and <folder>_<pdf_number:02d>.pdf
ConsolidatedName == <<"consolidated", 0>>
NumberedName(pdf_number) == <<"numbered", pdf_number>>

\* the pages PdfMerger collects: every listed temporary document that exists
RECURSIVE AppendExisting(_, _)
AppendExisting(pdf_files, temp) ==
    IF pdf_files = <<>> THEN <<>>
    ELSE (IF temp[Head(pdf_files)] # NoFile THEN <<temp[Head(pdf_files)]>>
                                            ELSE <<>>)
         \o AppendExisting(Tail(pdf_files), temp)

\* _merge_pdfs: a single document is copied; several are merged with PyPDF2;
\* without PyPDF2 the first document is copied
MergePdfs(pdf_files, temp, pypdf) ==
    IF Len(pdf_files) = 1 THEN <<temp[pdf_files[1]]>>
    ELSE IF pypdf THEN AppendExisting(pdf_files, temp)
    ELSE <<temp[pdf_files[1]]>>

\* open(output_file, "wb") / shutil.copy2: the document is created or replaced
Put(out, name, pages) == (name :> pages) @@ out

\* a compression pass that discards the merged document when it does not
\* succeed
CompressionPass_failfast(out, name, pass) ==
    IF pass \in {"fail", "raise"}
    THEN [n \in DOMAIN out \ {name} |-> out[n]] ELSE out

\* _create_single_pdf lines 264-289 and _create_multiple_pdfs lines 335-358:
\* compress() writes a temporary file; when it returns True the temporary file
\* is moved over the output, which keeps its pages; when it returns False or
\* raises, the output is left as _merge_pdfs wrote it
CompressionPass(out, name, pass) ==
    IF pass = "ok" THEN Put(out, name, out[name]) ELSE out

\* the cleanup loops: every listed temporary document is unlinked
Unlink(pdf_files, temp) ==
    [st \in Stems |->
        IF \E k \in 1..Len(pdf_files) : pdf_files[k] = st THEN NoFile
                                                          ELSE temp[st]]

\* the orchestrator is not part of the behaviours of ConsSpec
OrchIdle ==
    /\ entry = "api" /\ rootKind = "dir" /\ nfolders = 0 /\ nfiles = <<>>
    /\ postconverters = <<"consolidated_pdf">>
    /\ cfg_formats = 0 /\ cfg_overwrite = FALSE
    /\ run = 1 /\ pc = "post"
    /\ RunStart
    /\ fs = [t \in TaskIds |-> "absent"]
    /\ agg = [a \in AggIds |-> "absent"]
    /\ structure = {} /\ logging = FALSE
    /\ fs0 = fs /\ agg0 = agg /\ faults = 0

ConsInit ==
    /\ c_dir \in {d \in SUBSET Names : Cardinality(d) <= MaxConsFiles}
    /\ c_ci \in BOOLEAN
    /\ c_max_size_mb \in MaxSizes
    /\ c_pypdf \in BOOLEAN
    /\ c_compress \in BOOLEAN
    /\ c_conversion_result \in SUBSET c_dir
    /\ ConsRunning
    /\ OrchIdle
    /\ MetIdle
    /\ OcrIdle
    /\ LoopIdle
    /\ InvIdle
    /\ MacroIdle
    /\ BuildIdle
    /\ ConvIdle

\* process() lines 76-98 and _consolidate_tiff_to_pdf lines 180-195
ConsStart ==
    /\ c_pc = "start"
    /\ LET files == SortByName(GetTiffFilesFromSubfolder(c_dir, c_ci))
       IN  /\ c_files' = files
           /\ IF files = <<>>
              THEN /\ c_result' = "true"
                   /\ c_pc' = "done"
                   /\ UNCHANGED <<c_fpd, c_i, c_r>>
              ELSE /\ c_fpd' = CalculateFilesPerPdf(c_max_size_mb)
                   /\ c_i' = 1 /\ c_r' = 1
                   /\ c_pc' = "render"
                   /\ c_result' = c_result
    /\ UNCHANGED <<consInputs, c_pdf_files, c_success_count, c_temp, c_out,
                   c_faults, c_merged, c_compression>>
    /\ UNCHANGED outsideCons

\* the batch in work: all files (files_per_pdf >= total_files, _create_single_pdf)
\* or tiff_files[i : i + files_per_pdf] (_create_multiple_pdfs)
SinglePdf == c_fpd >= Len(c_files)
BatchEnd == IF SinglePdf THEN Len(c_files)
                         ELSE Min(c_i + c_fpd - 1, Len(c_files))

\* _convert_tiff_to_pdf for the next file of the batch (lines 245-248 and
\* 327-330): the converter writes temp_<stem>.pdf and returns True ("ok"),
\* fails before writing it ("fail"), or returns False or raises after the
\* document was written ("written"); only a True result with an existing
\* document is listed in pdf_files (lines 378-404)
ConsRender ==
    /\ c_pc = "render"
    /\ LET file == c_files[c_r]
       IN  \E o \in {"ok", "fail", "written"} :
              /\ o # "ok" => ConsCanFail
              /\ c_faults' = c_faults + (IF o # "ok" THEN 1 ELSE 0)
              /\ c_temp' = IF o = "fail" THEN c_temp
                           ELSE [c_temp EXCEPT ![file[1]] = file]
              /\ c_pdf_files' = IF o = "ok" THEN Append(c_pdf_files, file[1])
                                ELSE c_pdf_files
    /\ c_r' = c_r + 1
    /\ c_pc' = IF c_r = BatchEnd THEN "merge" ELSE "render"
    /\ UNCHANGED <<consInputs, c_files, c_fpd, c_i, c_success_count, c_out,
                   c_result, c_merged, c_compression>>
    /\ UNCHANGED outsideCons

\* _create_single_pdf lines 250-294: merge, cleanup, optional compression
ConsMergeSingle ==
    /\ c_pc = "merge"
    /\ SinglePdf
    /\ c_pc' = "done"
    /\ IF c_pdf_files = <<>>
       THEN /\ c_result' = "false"
            /\ UNCHANGED <<c_temp, c_out, c_faults, c_merged, c_compression>>
       ELSE \E m \in {"ok", "fail"}, z \in {"ok", "fail", "raise"} :
              /\ (m = "fail" \/ (m = "ok" /\ c_compress /\ z # "ok"))
                     => ConsCanFail
              /\ (m = "fail" \/ ~c_compress) => z = "ok"
              /\ c_faults' = c_faults + (IF m = "fail" \/ z # "ok" THEN 1 ELSE 0)
              /\ LET merged == MergePdfs(c_pdf_files, c_temp, c_pypdf)
                     pass == IF c_compress THEN z ELSE "off"
                 IN  IF m = "ok"
                     THEN /\ c_out' = CompressionPass(
                                 Put(c_out, ConsolidatedName, merged),
                                 ConsolidatedName, pass)
                          /\ c_merged' = Put(c_merged, ConsolidatedName, merged)
                          /\ c_compression' =
                                 Put(c_compression, ConsolidatedName, pass)
                     ELSE UNCHANGED <<c_out, c_merged, c_compression>>
              /\ c_temp' = Unlink(c_pdf_files, c_temp)
              /\ c_result' = IF m = "ok" /\ z # "raise" THEN "true" ELSE "false"
    /\ UNCHANGED <<consInputs, c_files, c_fpd, c_i, c_r, c_pdf_files,
                   c_success_count>>
    /\ UNCHANGED outsideCons

\* _create_multiple_pdfs lines 332-376 for one batch: merge, optional
\* compression, cleanup; an exception of the compressor ends the method
ConsMergeBatch ==
    /\ c_pc = "merge"
    /\ ~SinglePdf
    /\ LET pdf_number == ((c_i - 1) \div c_fpd) + 1
           lastBatch == c_i + c_fpd > Len(c_files)
       IN  \E m \in {"ok", "fail"}, z \in {"ok", "fail", "raise"} :
              /\ c_pdf_files = <<>> => m = "fail"
              /\ ((c_pdf_files # <<>> /\ m = "fail")
                    \/ (m = "ok" /\ c_compress /\ z # "ok")) => ConsCanFail
              /\ (m = "fail" \/ ~c_compress) => z = "ok"
              /\ c_faults' = c_faults +
                     (IF (c_pdf_files # <<>> /\ m = "fail") \/ z # "ok"
                      THEN 1 ELSE 0)
              /\ LET merged == MergePdfs(c_pdf_files, c_temp, c_pypdf)
                     name == NumberedName(pdf_number)
                     pass == IF c_compress THEN z ELSE "off"
                 IN  IF m = "ok"
                     THEN /\ c_out' = CompressionPass(Put(c_out, name, merged),
                                                      name, pass)
                          /\ c_merged' = Put(c_merged, name, merged)
                          /\ c_compression' = Put(c_compression, name, pass)
                     ELSE UNCHANGED <<c_out, c_merged, c_compression>>
              /\ IF z = "raise"
                 THEN /\ c_result' = "false"
                      /\ c_pc' = "done"
                      /\ UNCHANGED <<c_temp, c_success_count, c_i, c_pdf_files>>
                 ELSE /\ c_success_count' =
                             c_success_count + (IF m = "ok" THEN 1 ELSE 0)
                      /\ c_temp' = Unlink(c_pdf_files, c_temp)
                      /\ c_pdf_files' = <<>>
                      /\ c_i' = c_i + c_fpd
                      /\ IF lastBatch
                         THEN /\ c_pc' = "done"
                              /\ c_result' = IF c_success_count' > 0
                                             THEN "true" ELSE "false"
                         ELSE /\ c_pc' = "render"
                              /\ c_result' = c_result
    /\ UNCHANGED <<consInputs, c_files, c_fpd, c_r>>
    /\ UNCHANGED outsideCons

ConsNext ==
    \/ ConsStart
    \/ ConsRender
    \/ ConsMergeSingle
    \/ ConsMergeBatch

ConsSpec == ConsInit /\ [][ConsNext]_vars

\* ========================= src/src/postconverters/met_format_postconverter.py

MetFiles == 1..MaxMetFiles

\* the converters of TIFFConverter._initialize_converters, in the order of the
\* dictionary: the formats a record of files_info can carry
EnabledFormats == <<"JPGHIGH", "JPGLOW", "PDF", "METS">>

\* the list of line 245 of _create_format_specific_met_for_subfolder
MetFormats == <<"JPGHIGH", "JPGLOW", "PDF">>

\* the tasks of the folder in the order of the loops of _process_subfolder
MetTasks == MetFiles \X (1..Len(EnabledFormats))

\* files_info: the records add_conversion_result received for the tasks from
\* task (i, j) on, given each task's outcome; a skipped task left no record
RECURSIVE FilesInfoFrom(_, _, _)
FilesInfoFrom(outcome, i, j) ==
    IF i > MaxMetFiles THEN <<>>
    ELSE LET rest == IF j < Len(EnabledFormats)
                     THEN FilesInfoFrom(outcome, i, j + 1)
                     ELSE FilesInfoFrom(outcome, i + 1, 1)
         IN  IF outcome[<<i, j>>] = "skipped" THEN rest
             ELSE <<[input_file |-> i, format |-> EnabledFormats[j],
                     success |-> outcome[<<i, j>>] = "ok"]>> \o rest

\* _prepare_conversion_results: one entry per record of files_info, with the
\* record's output file when the record is a success
PrepareConversionResults(files_info) ==
    [k \in 1..Len(files_info) |->
        [input_file |-> files_info[k].input_file,
         output_files |-> IF files_info[k].success
                          THEN <<files_info[k].format>> ELSE <<>>,
         success |-> files_info[k].success]]

\* _has_files_for_format
HasFilesForFormat(prepared, format_name) ==
    \E k \in 1..Len(prepared) :
        /\ prepared[k].success
        /\ \E o \in 1..Len(prepared[k].output_files) :
              prepared[k].output_files[o] = format_name

\* format_results of _create_format_met_file (lines 304-315): the input file
\* of every successful entry with an output file of the format
RECURSIVE FormatResults(_, _)
FormatResults(prepared, format_name) ==
    IF prepared = <<>> THEN <<>>
    ELSE LET r == Head(prepared)
         IN  (IF r.success /\ \E o \in 1..Len(r.output_files) :
                                 r.output_files[o] = format_name
              THEN <<r.input_file>> ELSE <<>>)
             \o FormatResults(Tail(prepared), format_name)

\* _generate_format_met_xml: the fileGrp element of the template holds a
\* comment and no file element, whatever format_results is
GenerateFormatMetXml(format_results) == <<>>

\* _create_original_tiff_mets_file lines 721-750: one fileGrp per entry of
\* the prepared results
OriginalTiffFiles(prepared) ==
    [k \in 1..Len(prepared) |-> prepared[k].input_file]

\* process lines 71-95: True when no format of results is marked False
MetProcessValue(results) ==
    IF \A k \in 1..Len(MetFormats) : results[MetFormats[k]] THEN "true"
                                                            ELSE "false"

MetCanFail == m_faults < MaxMetFaults

MetInit ==
    /\ \E outcome \in [MetTasks -> {"skipped", "ok", "fail"}] :
          m_files_info = FilesInfoFrom(outcome, 1, 1)
    /\ MetRunning
    /\ OrchIdle
    /\ ConsIdle
    /\ OcrIdle
    /\ LoopIdle
    /\ InvIdle
    /\ MacroIdle
    /\ BuildIdle
    /\ ConvIdle

\* process lines 49-57 and _create_format_specific_met_for_subfolder lines
\* 239-242: the results are prepared and the folder's directory is made; an
\* exception there marks every format and the TIFF record as failed
MetPrepare ==
    /\ m_pc = "start"
    /\ m_conversion_results' = PrepareConversionResults(m_files_info)
    /\ \E o \in {"ok", "raise"} :
          /\ o = "raise" => MetCanFail
          /\ m_faults' = m_faults + (IF o = "raise" THEN 1 ELSE 0)
          /\ IF o = "ok"
             THEN /\ m_pc' = "format" /\ m_k' = 1
                  /\ UNCHANGED <<m_results, m_result>>
             ELSE /\ m_results' = [n \in {"JPGHIGH", "JPGLOW", "PDF",
                                          "original_tiff_mets"} |-> FALSE]
                  /\ m_result' = "false"
                  /\ m_pc' = "done" /\ m_k' = m_k
    /\ UNCHANGED <<m_files_info, m_mets>>
    /\ UNCHANGED outsideMet

\* one iteration of the loop of lines 245-256, with _create_format_met_file
MetFormat ==
    /\ m_pc = "format"
    /\ LET format_name == MetFormats[m_k]
       IN  IF HasFilesForFormat(m_conversion_results, format_name)
           THEN \E o \in {"ok", "fail"} :
                  /\ o = "fail" => MetCanFail
                  /\ m_faults' = m_faults + (IF o = "fail" THEN 1 ELSE 0)
                  /\ m_results' = (format_name :> (o = "ok")) @@ m_results
                  /\ m_mets' = IF o = "ok"
                               THEN (format_name :> GenerateFormatMetXml(
                                        FormatResults(m_conversion_results,
                                                      format_name))) @@ m_mets
                               ELSE m_mets
           ELSE /\ m_results' = (format_name :> FALSE) @@ m_results
                /\ UNCHANGED <<m_mets, m_faults>>
    /\ m_k' = m_k + 1
    /\ m_pc' = IF m_k < Len(MetFormats) THEN "format" ELSE "tiff"
    /\ UNCHANGED <<m_files_info, m_conversion_results, m_result>>
    /\ UNCHANGED outsideMet

\* lines 258-262 with _create_original_tiff_mets_file, then the rest of
\* process
MetOriginalTiff ==
    /\ m_pc = "tiff"
    /\ \E o \in {"ok", "fail"} :
          /\ o = "fail" => MetCanFail
          /\ m_faults' = m_faults + (IF o = "fail" THEN 1 ELSE 0)
          /\ m_results' = ("original_tiff_mets" :> (o = "ok")) @@ m_results
          /\ m_mets' = IF o = "ok"
                       THEN ("TIFF" :> OriginalTiffFiles(m_conversion_results))
                            @@ m_mets
                       ELSE m_mets
    /\ m_result' = MetProcessValue(m_results)
    /\ m_pc' = "done"
    /\ UNCHANGED <<m_files_info, m_conversion_results, m_k>>
    /\ UNCHANGED outsideMet

MetNext ==
    \/ MetPrepare
    \/ MetFormat
    \/ MetOriginalTiff

MetSpec == MetInit /\ [][MetNext]_vars

\* =========================== src/src/converters/pdf_easyocr_converter.py

\* values of compression.target_dpi / resolution; 0 stands for a value that
\* is not set
Dpis == {0, 150, 300}

\* pil_img.size of the page image
ImgSizes == {<<4, 6>>}

\* bounding boxes of EasyOCR: four corner points <<x, y>> in image pixels
Boxes ==
    { <<<<1, 1>>, <<3, 1>>, <<3, 2>>, <<1, 2>>>>,
      <<<<2, 3>>, <<4, 4>>, <<3, 6>>, <<1, 5>>>>,
      <<<<0, 0>>, <<4, 0>>, <<4, 6>>, <<0, 6>>>> }

\* a number n / d, kept exact
Frac(n, d) == <<n, d>>
FracEq(a, b) == a[1] * b[2] = b[1] * a[2]

\* min(x_coords), max(x_coords), min(y_coords), max(y_coords) of a bbox
MinCoord(bbox, c) ==
    CHOOSE v \in {bbox[k][c] : k \in 1..Len(bbox)} :
        \A k \in 1..Len(bbox) : v <= bbox[k][c]
MaxCoord(bbox, c) ==
    CHOOSE v \in {bbox[k][c] : k \in 1..Len(bbox)} :
        \A k \in 1..Len(bbox) : v >= bbox[k][c]

\* a filter that drops the spans whose confidence equals the threshold
PassesThreshold_strict(confidence, ocr_confidence) == confidence > ocr_confidence

\* line 324: if confidence >= self.ocr_confidence
PassesThreshold(confidence, ocr_confidence) == confidence >= ocr_confidence

\* lines 330-353: the text element of a span; scale_factor is
\* points_per_inch / dpi with dpi = 300 and points_per_inch = 72
TextElement(span, img_height) ==
    [text |-> span.text,
     x |-> Frac(MinCoord(span.bbox, 1) * 72, 300),
     y |-> Frac((img_height - MaxCoord(span.bbox, 2)) * 72, 300),
     width |-> Frac((MaxCoord(span.bbox, 1) - MinCoord(span.bbox, 1)) * 72, 300),
     height |-> Frac((MaxCoord(span.bbox, 2) - MinCoord(span.bbox, 2)) * 72, 300),
     confidence |-> span.confidence]

\* _process_easyocr_results
RECURSIVE ProcessEasyocrResults(_, _, _)
ProcessEasyocrResults(results, img_height, ocr_confidence) ==
    IF results = <<>> THEN <<>>
    ELSE (IF PassesThreshold(Head(results).confidence, ocr_confidence)
          THEN <<TextElement(Head(results), img_height)>> ELSE <<>>)
         \o ProcessEasyocrResults(Tail(results), img_height, ocr_confidence)

\* line 214: dpi = int(self.embed_target_dpi) if self.embed_target_dpi else 300
PageDpi(embed_target_dpi) == IF embed_target_dpi # 0 THEN embed_target_dpi ELSE 300

\* lines 215-219: page_width and page_height
PageSize(img, dpi) == <<Frac(img[1] * 72, dpi), Frac(img[2] * 72, dpi)>>

OcrInit ==
    /\ \E n \in 0..MaxSpans :
          \E b \in [1..n -> Boxes], c \in [1..n -> 0..MaxConf] :
              o_results = [k \in 1..n |->
                              [bbox |-> b[k], text |-> k, confidence |-> c[k]]]
    /\ o_ocr_confidence \in 0..MaxConf
    /\ o_dpi \in Dpis
    /\ o_img \in ImgSizes
    /\ o_use_ocr \in BOOLEAN
    /\ OcrRunning
    /\ OrchIdle
    /\ ConsIdle
    /\ MetIdle
    /\ LoopIdle
    /\ InvIdle
    /\ MacroIdle
    /\ BuildIdle
    /\ ConvIdle

\* _create_pdf_with_easyocr lines 212-262: the canvas is created with the
\* page size, the image is drawn, and the text layer is added if OCR is on
OcrCreatePdf ==
    /\ o_pc = "create"
    /\ o_page' = PageSize(o_img, PageDpi(o_dpi))
    /\ o_pc' = IF o_use_ocr THEN "ocr" ELSE "save"
    /\ UNCHANGED <<ocrInputs, o_text_elements, o_n, o_canvas>>
    /\ UNCHANGED outsideOcr

\* _add_text_layer_to_pdf lines 292-299: readtext, _process_easyocr_results
OcrProcessResults ==
    /\ o_pc = "ocr"
    /\ o_text_elements' =
           ProcessEasyocrResults(o_results, o_img[2], o_ocr_confidence)
    /\ o_n' = 1
    /\ o_pc' = IF o_text_elements' = <<>> THEN "save" ELSE "draw"
    /\ UNCHANGED <<ocrInputs, o_page, o_canvas>>
    /\ UNCHANGED outsideOcr

\* one iteration of the loop of lines 302-303: _create_text_layer_easyocr
\* draws the element's text at (x, y)
OcrDrawString ==
    /\ o_pc = "draw"
    /\ LET e == o_text_elements[o_n]
       IN  o_canvas' = Append(o_canvas, [text |-> e.text, x |-> e.x, y |-> e.y])
    /\ o_n' = o_n + 1
    /\ o_pc' = IF o_n < Len(o_text_elements) THEN "draw" ELSE "save"
    /\ UNCHANGED <<ocrInputs, o_page, o_text_elements>>
    /\ UNCHANGED outsideOcr

\* line 265: canvas_obj.save()
OcrSave ==
    /\ o_pc = "save"
    /\ o_pc' = "saved"
    /\ UNCHANGED <<ocrInputs, o_page, o_text_elements, o_n, o_canvas>>
    /\ UNCHANGED outsideOcr

OcrNext ==
    \/ OcrCreatePdf
    \/ OcrProcessResults
    \/ OcrDrawString
    \/ OcrSave

OcrSpec == OcrInit /\ [][OcrNext]_vars

\* ====== the task loop of _process_subfolder, one step per converter call

\* converter.py line 158: max_workers or processing_config.get("max_workers", 1)
LoopInit ==
    /\ w_max_workers \in 1..MaxWorkers
    /\ w_ntasks \in 0..MaxLoopTasks
    /\ LoopRunning
    /\ OrchIdle
    /\ ConsIdle
    /\ MetIdle
    /\ OcrIdle
    /\ InvIdle
    /\ MacroIdle
    /\ BuildIdle
    /\ ConvIdle

\* the tasks the loops of lines 290-291 may start next: the loop body calls
\* converter.convert itself and starts nothing while a call is in progress;
\* max_workers is not consulted
Startable(next, running, max_workers) ==
    IF running = {} THEN {next} ELSE {}

\* _process_subfolder line 308: converter.convert is called for the next task
LoopBeginTask ==
    /\ w_pc = "loop"
    /\ w_next <= w_ntasks
    /\ \E t \in Startable(w_next, w_running, w_max_workers) :
          w_running' = w_running \cup {t}
    /\ w_next' = w_next + 1
    /\ UNCHANGED <<w_max_workers, w_ntasks, w_pc, w_outcomes, w_interrupted,
                   w_report, w_exit>>
    /\ UNCHANGED outsideLoop

\* lines 310-339: the call returns or raises an Exception; the outcome is
\* counted and recorded
LoopEndTask ==
    /\ w_pc = "loop"
    /\ \E t \in w_running, o \in {"ok", "fail"} :
          /\ w_running' = w_running \ {t}
          /\ w_outcomes' = Append(w_outcomes, [task |-> t, success |-> o = "ok"])
    /\ UNCHANGED <<w_max_workers, w_ntasks, w_pc, w_next, w_interrupted,
                   w_report, w_exit>>
    /\ UNCHANGED outsideLoop

\* _process_subfolder lines 343-350 and convert_directory lines 214-227: the
\* loops are over and the result is returned to main
LoopReturn ==
    /\ w_pc = "loop"
    /\ w_next > w_ntasks
    /\ w_running = {}
    /\ w_pc' = "returned"
    /\ UNCHANGED <<w_max_workers, w_ntasks, w_next, w_running, w_outcomes,
                   w_interrupted, w_report, w_exit>>
    /\ UNCHANGED outsideLoop

\* main lines 116-124: the result is shown and main returns
MainReport ==
    /\ w_pc = "returned"
    /\ w_report' = Append(w_report, w_outcomes)
    /\ w_exit' = 0
    /\ w_pc' = "exit"
    /\ UNCHANGED <<w_max_workers, w_ntasks, w_next, w_running, w_outcomes,
                   w_interrupted>>
    /\ UNCHANGED outsideLoop

\* KeyboardInterrupt is raised while convert_directory runs: no handler of
\* converter.py catches it (they catch Exception); main lines 128-130 print a
\* warning and call sys.exit(1)
Interrupt ==
    /\ w_pc = "loop"
    /\ w_interrupted' = TRUE
    /\ w_exit' = 1
    /\ w_pc' = "exit"
    /\ UNCHANGED <<w_max_workers, w_ntasks, w_next, w_running, w_outcomes,
                   w_report>>
    /\ UNCHANGED outsideLoop

LoopStep ==
    \/ LoopBeginTask
    \/ LoopEndTask
    \/ LoopReturn
    \/ MainReport

LoopNext ==
    \/ LoopStep
    \/ Interrupt

LoopSpec == LoopInit /\ [][LoopNext]_vars

\* the program keeps running until it exits; an interrupt may never arrive
LoopFairSpec == LoopSpec /\ WF_vars(LoopStep)

\* ============================================ src/src/commands/command_pattern.py

\* the command objects handed to the invoker
Commands == 1..MaxCommands

\* what Command.execute and Command.undo can do: return True, return False, or
\* raise
CallOutcomes == {"ok", "false", "raise"}

\* list.pop() leaves the list without its last element
PopLast(q) == SubSeq(q, 1, Len(q) - 1)

\* list.pop(0) leaves the list without its first element
PopFirst(q) == SubSeq(q, 2, Len(q))

\* an execute_command that never drops an entry
ExecuteSucceeded_uncapped(history, command, max_history) ==
    [history |-> Append(history, command), undo_history |-> <<>>]

\* execute_command, command.execute() returned True: append, clear the undo
\* history, drop the oldest entry beyond max_history
ExecuteSucceeded(history, command, max_history) ==
    LET appended == Append(history, command)
    IN  [history |-> IF Len(appended) > max_history THEN PopFirst(appended)
                     ELSE appended,
         undo_history |-> <<>>]

\* an execute_command that records the command although its execute() failed
ExecuteFailed_appending(history, undo_history, command) ==
    [history |-> Append(history, command), undo_history |-> undo_history]

\* execute_command, command.execute() returned False or raised: nothing is
\* touched
ExecuteFailed(history, undo_history, command) ==
    [history |-> history, undo_history |-> undo_history]

\* undo_last_command, last_command.undo() returned True
UndoSucceeded(history, undo_history) ==
    [history |-> PopLast(history),
     undo_history |-> Append(undo_history, history[Len(history)])]

\* a redo that clears the undo history, as execute_command does
RedoSucceeded_clearing(history, undo_history) ==
    [history |-> Append(history, undo_history[Len(undo_history)]),
     undo_history |-> <<>>]

\* redo_last_command, command.execute() returned True
RedoSucceeded(history, undo_history) ==
    [history |-> Append(history, undo_history[Len(undo_history)]),
     undo_history |-> PopLast(undo_history)]

Call(method, command, returned) ==
    [method |-> method, command |-> command, result |-> returned,
     history |-> k_history, undo_history |-> k_undo_history]

InvInit ==
    /\ k_max_history \in 1..MaxHistory
    /\ InvRunning
    /\ OrchIdle
    /\ ConsIdle
    /\ MetIdle
    /\ OcrIdle
    /\ LoopIdle
    /\ MacroIdle
    /\ BuildIdle
    /\ ConvIdle

\* CommandInvoker.execute_command(command)
ExecuteCommand ==
    /\ k_ops < MaxOps
    /\ \E command \in Commands, outcome \in CallOutcomes :
        /\ LET after == IF outcome = "ok"
                        THEN ExecuteSucceeded(k_history, command, k_max_history)
                        ELSE ExecuteFailed(k_history, k_undo_history, command)
           IN  /\ k_history' = after.history
               /\ k_undo_history' = after.undo_history
        /\ k_last' = Call("execute", command, outcome = "ok")
        /\ k_executed' = IF outcome = "ok" THEN Append(k_executed, command)
                         ELSE k_executed
    /\ k_prev' = k_last
    /\ k_ops' = k_ops + 1
    /\ UNCHANGED <<k_max_history, k_moved, outsideInv>>

\* CommandInvoker.undo_last_command(): the command is popped before its undo()
\* is called, and put back only when undo() returns False
UndoLastCommand ==
    /\ k_ops < MaxOps
    /\ IF k_history = <<>>
       THEN /\ k_last' = Call("undo", 0, FALSE)
            /\ UNCHANGED <<k_history, k_undo_history>>
       ELSE \E outcome \in CallOutcomes :
            /\ k_last' = Call("undo", k_history[Len(k_history)], outcome = "ok")
            /\ CASE outcome = "ok" ->
                     LET after == UndoSucceeded(k_history, k_undo_history)
                     IN  /\ k_history' = after.history
                         /\ k_undo_history' = after.undo_history
                 [] outcome = "false" ->
                     UNCHANGED <<k_history, k_undo_history>>
                 [] outcome = "raise" ->
                     /\ k_history' = PopLast(k_history)
                     /\ UNCHANGED k_undo_history
    /\ k_moved' = (k_moved \/ k_history' # k_history)
    /\ k_prev' = k_last
    /\ k_ops' = k_ops + 1
    /\ UNCHANGED <<k_max_history, k_executed, outsideInv>>

\* CommandInvoker.redo_last_command(): the command is popped before its
\* execute() is called, and put back only when execute() returns False
RedoLastCommand ==
    /\ k_ops < MaxOps
    /\ IF k_undo_history = <<>>
       THEN /\ k_last' = Call("redo", 0, FALSE)
            /\ UNCHANGED <<k_history, k_undo_history>>
       ELSE \E outcome \in CallOutcomes :
            /\ k_last' = Call("redo", k_undo_history[Len(k_undo_history)],
                              outcome = "ok")
            /\ CASE outcome = "ok" ->
                     LET after == RedoSucceeded(k_history, k_undo_history)
                     IN  /\ k_history' = after.history
                         /\ k_undo_history' = after.undo_history
                 [] outcome = "false" ->
                     UNCHANGED <<k_history, k_undo_history>>
                 [] outcome = "raise" ->
                     /\ k_undo_history' = PopLast(k_undo_history)
                     /\ UNCHANGED k_history
    /\ k_moved' = (k_moved \/ k_history' # k_history)
    /\ k_prev' = k_last
    /\ k_ops' = k_ops + 1
    /\ UNCHANGED <<k_max_history, k_executed, outsideInv>>

InvNext ==
    \/ ExecuteCommand
    \/ UndoLastCommand
    \/ RedoLastCommand

InvSpec == InvInit /\ [][InvNext]_vars

\* ---------------------------------------------------------- MacroCommand

\* a rollback that walks executed_commands front to back
Reversed_forward(q) == q

\* reversed(self.executed_commands)
Reversed(q) == [k \in 1..Len(q) |-> q[Len(q) + 1 - k]]

MacroInit ==
    /\ q_n \in 0..MaxSub
    /\ q_execute \in [1..q_n -> CallOutcomes]
    /\ q_undo \in [1..q_n -> CallOutcomes]
    /\ MacroRunning
    /\ OrchIdle
    /\ ConsIdle
    /\ MetIdle
    /\ OcrIdle
    /\ LoopIdle
    /\ InvIdle
    /\ BuildIdle
    /\ ConvIdle

\* MacroCommand.execute is entered: executed_commands is cleared
MacroExecuteStart ==
    /\ q_pc = "idle"
    /\ q_pc' = "loop"
    /\ q_i' = 1
    /\ q_executed' = <<>>
    /\ UNCHANGED <<q_n, q_execute, q_undo, q_pending, q_calls, q_result,
                   q_undo_result, outsideMacro>>

\* one iteration of the loop of execute: a sub-command that returns False or
\* raises ends the loop and starts _undo_executed_commands
MacroExecuteStep ==
    /\ q_pc = "loop"
    /\ q_i <= q_n
    /\ q_calls' = Append(q_calls, <<"execute", q_i>>)
    /\ IF q_execute[q_i] = "ok"
       THEN /\ q_executed' = Append(q_executed, q_i)
            /\ q_i' = q_i + 1
            /\ UNCHANGED <<q_pc, q_pending>>
       ELSE /\ q_pc' = "rollback"
            /\ q_pending' = Reversed(q_executed)
            /\ UNCHANGED <<q_i, q_executed>>
    /\ UNCHANGED <<q_n, q_execute, q_undo, q_result, q_undo_result,
                   outsideMacro>>

\* one iteration of _undo_executed_commands: the value undo() returns is not
\* looked at and an exception is only logged
MacroRollbackStep ==
    /\ q_pc = "rollback"
    /\ q_pending # <<>>
    /\ q_calls' = Append(q_calls, <<"undo", Head(q_pending)>>)
    /\ q_pending' = Tail(q_pending)
    /\ UNCHANGED <<q_n, q_execute, q_undo, q_pc, q_i, q_executed, q_result,
                   q_undo_result, outsideMacro>>

\* execute returns: True after the last sub-command, False after the rollback
MacroExecuteReturn ==
    /\ \/ /\ q_pc = "loop"
          /\ q_i > q_n
          /\ q_result' = "true"
       \/ /\ q_pc = "rollback"
          /\ q_pending = <<>>
          /\ q_result' = "false"
    /\ q_pc' = "done"
    /\ UNCHANGED <<q_n, q_execute, q_undo, q_i, q_executed, q_pending, q_calls,
                   q_undo_result, outsideMacro>>

\* MacroCommand.undo is entered
MacroUndoStart ==
    /\ q_pc = "done"
    /\ q_pc' = "undo"
    /\ q_pending' = Reversed(q_executed)
    /\ UNCHANGED <<q_n, q_execute, q_undo, q_i, q_executed, q_calls, q_result,
                   q_undo_result, outsideMacro>>

\* one iteration of the loop of undo: an exception ends it with False
MacroUndoStep ==
    /\ q_pc = "undo"
    /\ q_pending # <<>>
    /\ q_calls' = Append(q_calls, <<"undo", Head(q_pending)>>)
    /\ IF q_undo[Head(q_pending)] = "raise"
       THEN /\ q_undo_result' = "false"
            /\ q_pc' = "undone"
            /\ UNCHANGED q_pending
       ELSE /\ q_pending' = Tail(q_pending)
            /\ UNCHANGED <<q_pc, q_undo_result>>
    /\ UNCHANGED <<q_n, q_execute, q_undo, q_i, q_executed, q_result,
                   outsideMacro>>

\* undo returns True after the last sub-command
MacroUndoReturn ==
    /\ q_pc = "undo"
    /\ q_pending = <<>>
    /\ q_undo_result' = "true"
    /\ q_pc' = "undone"
    /\ UNCHANGED <<q_n, q_execute, q_undo, q_i, q_executed, q_pending, q_calls,
                   q_result, outsideMacro>>

MacroNext ==
    \/ MacroExecuteStart
    \/ MacroExecuteStep
    \/ MacroRollbackStep
    \/ MacroExecuteReturn
    \/ MacroUndoStart
    \/ MacroUndoStep
    \/ MacroUndoReturn

MacroSpec == MacroInit /\ [][MacroNext]_vars

\* ==================================================== src/src/config_builder.py

FormatNames == {"JPGHIGH", "PDF"}

\* values handed to set_format_quality: both ends of 1..100 and both sides
Qualities == {0, 1, 100, 101}

\* values handed to set_format_enabled and set_postconverter_enabled: the two
\* booleans and a value of another type
EnabledValues == {"True", "False", "yes"}

\* 1 <= quality <= 100
QualityInRange(quality) == 1 <= quality /\ quality <= 100

\* ConfigBuilder.validate
ValidateValue(fmts, posts) ==
    /\ \A name \in DOMAIN fmts :
        /\ fmts[name].enabled \in {"True", "False"}
        /\ QualityInRange(fmts[name].quality)
    /\ \A name \in DOMAIN posts : posts[name].enabled \in {"True", "False"}

BuildInit ==
    /\ BuildIdle
    /\ OrchIdle
    /\ ConsIdle
    /\ MetIdle
    /\ OcrIdle
    /\ LoopIdle
    /\ InvIdle
    /\ MacroIdle
    /\ ConvIdle

\* ConfigBuilder.add_format(name)
AddFormat ==
    /\ b_ops < MaxBuilderOps
    /\ \E name \in FormatNames :
        /\ b_current_format' = name
        /\ b_formats' = Put(b_formats, name, [enabled |-> "True", quality |-> 95])
    /\ b_ops' = b_ops + 1
    /\ UNCHANGED <<b_current_postconverter, b_postconverters, b_rejected,
                   b_validate, b_build, outsideBuild>>

\* ConfigBuilder.set_format_enabled(enabled)
SetFormatEnabled ==
    /\ b_ops < MaxBuilderOps
    /\ \E enabled \in EnabledValues :
        b_formats' = IF b_current_format # "None"
                     THEN [b_formats EXCEPT ![b_current_format].enabled = enabled]
                     ELSE b_formats
    /\ b_ops' = b_ops + 1
    /\ UNCHANGED <<b_current_format, b_current_postconverter, b_postconverters,
                   b_rejected, b_validate, b_build, outsideBuild>>

\* ConfigBuilder.set_format_quality(quality): a value outside 1..100 is
\* dropped and the stored quality stays what it was
SetFormatQuality ==
    /\ b_ops < MaxBuilderOps
    /\ \E quality \in Qualities :
        /\ b_formats' = IF b_current_format # "None" /\ QualityInRange(quality)
                        THEN [b_formats EXCEPT ![b_current_format].quality = quality]
                        ELSE b_formats
        /\ b_rejected' = (b_rejected \/
                            (b_current_format # "None" /\ ~QualityInRange(quality)))
    /\ b_ops' = b_ops + 1
    /\ UNCHANGED <<b_current_format, b_current_postconverter, b_postconverters,
                   b_validate, b_build, outsideBuild>>

\* ConfigBuilder.add_postconverter(name)
AddPostconverter ==
    /\ b_ops < MaxBuilderOps
    /\ \E name \in PostNames :
        /\ b_current_postconverter' = name
        /\ b_postconverters' = Put(b_postconverters, name, [enabled |-> "True"])
    /\ b_ops' = b_ops + 1
    /\ UNCHANGED <<b_current_format, b_formats, b_rejected, b_validate, b_build,
                   outsideBuild>>

\* ConfigBuilder.set_postconverter_enabled(enabled)
SetPostconverterEnabled ==
    /\ b_ops < MaxBuilderOps
    /\ \E enabled \in EnabledValues :
        b_postconverters' =
            IF b_current_postconverter # "None"
            THEN [b_postconverters EXCEPT ![b_current_postconverter].enabled = enabled]
            ELSE b_postconverters
    /\ b_ops' = b_ops + 1
    /\ UNCHANGED <<b_current_format, b_formats, b_current_postconverter,
                   b_rejected, b_validate, b_build, outsideBuild>>

\* ConfigBuilder.validate()
Validate ==
    /\ b_ops < MaxBuilderOps
    /\ b_validate' = IF ValidateValue(b_formats, b_postconverters) THEN "true"
                     ELSE "false"
    /\ b_ops' = b_ops + 1
    /\ UNCHANGED <<b_current_format, b_formats, b_current_postconverter,
                   b_postconverters, b_rejected, b_build, outsideBuild>>

\* ConfigBuilder.build(): the configuration, or ValueError when validate() is
\* False
Build ==
    /\ b_ops < MaxBuilderOps
    /\ b_validate' = IF ValidateValue(b_formats, b_postconverters) THEN "true"
                     ELSE "false"
    /\ b_build' = IF ValidateValue(b_formats, b_postconverters) THEN "config"
                  ELSE "ValueError"
    /\ b_ops' = b_ops + 1
    /\ UNCHANGED <<b_current_format, b_formats, b_current_postconverter,
                   b_postconverters, b_rejected, outsideBuild>>

BuildNext ==
    \/ AddFormat
    \/ SetFormatEnabled
    \/ SetFormatQuality
    \/ AddPostconverter
    \/ SetPostconverterEnabled
    \/ Validate
    \/ Build

BuildSpec == BuildInit /\ [][BuildNext]_vars

\* ============ PDFEasyOCRConverter.convert, src/src/converters/pdf_easyocr_converter.py

\* the instance attributes PDFCompressor.__init__ and
\* _check_tools_availability set
PDFCompressorAttributes ==
    {"enabled", "compression_level", "target_dpi", "image_quality",
     "remove_metadata", "fallback_on_error", "logger", "ghostscript_available",
     "pikepdf_available", "pypdf_available"}

\* what reading self.pdf_compressor.config['enabled'] yields: AttributeError
\* when the compressor has no attribute config
CompressorConfigEnabled(enabled) ==
    IF "config" \in PDFCompressorAttributes
    THEN IF enabled THEN "True" ELSE "False"
    ELSE "AttributeError"

ConvInit ==
    /\ v_valid_input \in BOOLEAN
    /\ v_directory \in BOOLEAN
    /\ v_engine \in {"ready", "missing", "unused"}
    /\ v_create \in CallOutcomes
    /\ v_enabled \in BOOLEAN
    /\ v_compress \in CallOutcomes
    /\ ConvRunning
    /\ OrchIdle
    /\ ConsIdle
    /\ MetIdle
    /\ OcrIdle
    /\ LoopIdle
    /\ InvIdle
    /\ MacroIdle
    /\ BuildIdle

\* convert lines 99-105: validate_input
ConvValidateInput ==
    /\ v_pc = "validate"
    /\ IF v_valid_input
       THEN v_pc' = "directory" /\ v_result' = v_result
       ELSE v_pc' = "done" /\ v_result' = "false"
    /\ UNCHANGED <<v_valid_input, v_directory, v_engine, v_create, v_enabled,
                   v_compress, v_pdf, outsideConv>>

\* convert lines 107-114: create_output_directory
ConvCreateOutputDirectory ==
    /\ v_pc = "directory"
    /\ IF v_directory
       THEN v_pc' = "engine" /\ v_result' = v_result
       ELSE v_pc' = "done" /\ v_result' = "false"
    /\ UNCHANGED <<v_valid_input, v_directory, v_engine, v_create, v_enabled,
                   v_compress, v_pdf, outsideConv>>

\* convert lines 116-119: the recognition engine is required and missing
ConvCheckEngine ==
    /\ v_pc = "engine"
    /\ IF v_engine = "missing"
       THEN v_pc' = "done" /\ v_result' = "false"
       ELSE v_pc' = "create" /\ v_result' = v_result
    /\ UNCHANGED <<v_valid_input, v_directory, v_engine, v_create, v_enabled,
                   v_compress, v_pdf, outsideConv>>

\* convert lines 121-125 and 159-161: _create_pdf_with_easyocr
ConvCreatePdf ==
    /\ v_pc = "create"
    /\ IF v_create = "ok"
       THEN /\ v_pdf' = "created"
            /\ v_pc' = "compress"
            /\ v_result' = v_result
       ELSE /\ v_pdf' = v_pdf
            /\ v_pc' = "done"
            /\ v_result' = "false"
    /\ UNCHANGED <<v_valid_input, v_directory, v_engine, v_create, v_enabled,
                   v_compress, outsideConv>>

\* convert lines 128-158 and 163-168: the compression pass on the created
\* document; an exception raised here is caught by the handler of convert,
\* which returns False
ConvCompress ==
    /\ v_pc = "compress"
    /\ LET enabled == CompressorConfigEnabled(v_enabled)
       IN  CASE enabled = "AttributeError" ->
                    v_result' = "false" /\ v_pdf' = v_pdf
             [] enabled = "False" ->
                    v_result' = "true" /\ v_pdf' = v_pdf
             [] enabled = "True" /\ v_compress = "ok" ->
                    v_result' = "true" /\ v_pdf' = "compressed"
             [] enabled = "True" /\ v_compress = "false" ->
                    v_result' = "true" /\ v_pdf' = v_pdf
             [] enabled = "True" /\ v_compress = "raise" ->
                    v_result' = "false" /\ v_pdf' = v_pdf
    /\ v_pc' = "done"
    /\ UNCHANGED <<v_valid_input, v_directory, v_engine, v_create, v_enabled,
                   v_compress, outsideConv>>

ConvNext ==
    \/ ConvValidateInput
    \/ ConvCreateOutputDirectory
    \/ ConvCheckEngine
    \/ ConvCreatePdf
    \/ ConvCompress

ConvSpec == ConvInit /\ [][ConvNext]_vars

\* ============================================================ properties

\* position of task (i, j) in the order of the loops of _process_subfolder
TaskIndex(i, j) == (i - 1) * formats + j

\* the iteration of task (i, j) of folder f has completed in this run
Examined(f, i, j) == TaskIndex(i, j) <= examined[f]

TasksOf(f) == (1..nfiles[f]) \X (1..formats)

RecordsOf(f, i, j) ==
    {k \in 1..Len(conversion_results[f]) :
        /\ conversion_results[f][k].input_file = i
        /\ conversion_results[f][k].format = j}

SuccessRecords(f) ==
    {k \in 1..Len(conversion_results[f]) : conversion_results[f][k].success}

FailureRecords(f) ==
    {k \in 1..Len(conversion_results[f]) : ~conversion_results[f][k].success}

\* the folder loop of convert_directory has been left in this run
RunCompleted ==
    \/ pc = "final"
    \/ pc \in {"returned", "exit"} /\ result.error = "absent"

\* the task loop of folder f has finished in this run
LoopFinished(f) == f \in DOMAIN subfolder_results

\* C1: once the task loop of a folder with N files and M formats has finished,
\* N*M conversion outcomes are recorded for the folder, one per task, skipped
\* and failed tasks included
C1_OutcomePerTask ==
    \A f \in 1..nfolders :
        LoopFinished(f) =>
            /\ Len(conversion_results[f]) = nfiles[f] * formats
            /\ \A t \in TasksOf(f) : Cardinality(RecordsOf(f, t[1], t[2])) = 1

\* C2: a failing task (converter returns failure or raises) stops nothing:
\* when the run is over, every folder has been handled, every task of every
\* folder that was not reported as an error has been reached, each task that
\* passed validation was converted exactly once and has exactly one record,
\* and in a folder with exactly one failed task and no skipped task all the
\* other tasks have a successful record
C2_FailureIsolation ==
    RunCompleted =>
        \A f \in 1..nfolders :
            /\ f \in DOMAIN subfolder_results \cup error_report
            /\ f \notin error_report =>
                /\ LoopFinished(f)
                /\ examined[f] = nfiles[f] * formats
                /\ \A t \in TasksOf(f) :
                      /\ convCalls[<<f, t[1], t[2]>>] <= 1
                      /\ Cardinality(RecordsOf(f, t[1], t[2]))
                             = convCalls[<<f, t[1], t[2]>>]
                /\ (/\ Cardinality(FailureRecords(f)) = 1
                    /\ \A t \in TasksOf(f) : convCalls[<<f, t[1], t[2]>>] = 1)
                      => /\ Cardinality(SuccessRecords(f))
                                = nfiles[f] * formats - 1
                         /\ subfolder_results[f].conversions_successful
                                = nfiles[f] * formats - 1

\* C2 witness: the run is over, the first folder had exactly one failed task
\* among successful ones, and the folder after it was converted
C2_Witness ==
    /\ RunCompleted
    /\ nfolders >= 2
    /\ {1, 2} \subseteq DOMAIN subfolder_results
    /\ error_report = {}
    /\ Cardinality(FailureRecords(1)) = 1
    /\ Cardinality(SuccessRecords(1)) >= 1
    /\ Cardinality(SuccessRecords(2)) >= 1

C4_SkipBeforeConvert ==
    \A f \in 1..nfolders : \A t \in TasksOf(f) :
        (Examined(f, t[1], t[2]) /\ fs0[<<f, t[1], t[2]>>] # "absent" /\ ~overwrite) =>
            /\ convCalls[<<f, t[1], t[2]>>] = 0
            /\ fs[<<f, t[1], t[2]>>] = fs0[<<f, t[1], t[2]>>]

\* C4 witness: in a second run a task whose artifact existed was passed over
\* while another task of the folder was converted
C4_Witness ==
    \E f \in 1..nfolders : \E t \in TasksOf(f), u \in TasksOf(f) :
        /\ ~overwrite
        /\ Examined(f, t[1], t[2]) /\ fs0[<<f, t[1], t[2]>>] # "absent"
        /\ convCalls[<<f, u[1], u[2]>>] = 1

\* the output directory holds every artifact a complete run produces
Populated ==
    /\ formats >= 1
    /\ \A f \in 1..nfolders : nfiles[f] >= 1
    /\ \A f \in 1..nfolders : \A t \in TasksOf(f) : fs0[<<f, t[1], t[2]>>] # "absent"
    /\ \A f \in 1..nfolders : \A k \in 1..Len(postconverters) :
          agg0[<<f, postconverters[k]>>] # "absent"

\* C5: a re-run with overwrite off over a populated output directory writes
\* no artifact, per-file or folder-level, and yields N*M skipped outcomes
C5_RerunWritesNothing ==
    (run >= 2 /\ RunCompleted /\ ~overwrite /\ Populated) =>
        /\ fs = fs0
        /\ agg = agg0
        /\ \A f \in 1..nfolders :
              LoopFinished(f) =>
                 subfolder_results[f].conversions_failed = nfiles[f] * formats

\* folders in which at least one conversion succeeded in this run
FoldersWithSuccess ==
    {f \in 1..nfolders : \E t \in TasksOf(f) : fs[<<f, t[1], t[2]>>] = "written"
                                               /\ convCalls[<<f, t[1], t[2]>>] = 1}

\* C6: a folder without any successful conversion is reported as failed, not
\* as successful, and the folders after it are still processed
C6_FailedFolderReported ==
    (pc \in {"returned", "exit"} /\ result.error = "absent") =>
        /\ result.subfolders_successful = Cardinality(FoldersWithSuccess)
        /\ result.subfolders_processed = nfolders

\* C7: exit status 0 only if at least one folder was successfully processed
C7_ExitStatus ==
    pc = "exit" =>
        /\ exitStatus = 0 => FoldersWithSuccess # {}
        /\ FoldersWithSuccess = {} => exitStatus # 0

\* C8: with a root that is missing or not a directory, convert_directory does
\* no work (no output structure, no log file, no conversion, no postconverter)
\* and returns the failure of the root check
C8_InvalidRootAborts ==
    rootKind # "dir" =>
        /\ structure = {}
        /\ ~logging
        /\ \A t \in TaskIds : convCalls[t] = 0 /\ fs[t] = "absent"
        /\ \A f \in Folders : postRuns[f] = <<>>
        /\ \A a \in AggIds : agg[a] = "absent"
        /\ pc = "returned" => result = FailureResult("exception")
        /\ pc \notin {"folder", "task", "ret", "post", "summary", "final"}

\* C8 witness: convert_directory has returned for a root that is missing
C8_Witness ==
    /\ entry = "api"
    /\ rootKind \in {"missing", "file"}
    /\ pc = "returned"

\* the consolidator has returned after a run in which PyPDF2 was importable,
\* the file system matched patterns case-sensitively, and no conversion, merge
\* or compression failed
ConsCleanRun ==
    /\ c_pc = "done"
    /\ c_files # <<>>
    /\ c_faults = 0 /\ c_pypdf /\ ~c_ci

\* the pages of the numbered outputs k..n, in the order of the outputs
RECURSIVE NumberedPages(_, _)
NumberedPages(k, n) ==
    IF k > n THEN <<>>
    ELSE (IF NumberedName(k) \in DOMAIN c_out THEN c_out[NumberedName(k)]
                                              ELSE <<>>)
         \o NumberedPages(k + 1, n)

\* the pages of all output documents, in the order of the outputs
OutputPages ==
    (IF ConsolidatedName \in DOMAIN c_out THEN c_out[ConsolidatedName] ELSE <<>>)
    \o NumberedPages(1, 2 * MaxConsFiles)

\* C9: the output documents are an order-preserving partition of the folder's
\* input documents sorted by name: their pages, read in the order of the
\* outputs, are the sorted inputs, each exactly once
C9_ConsolidationPartition ==
    ConsCleanRun => OutputPages = Ascending(c_dir)

\* C10: with filesPerDocument = max(1, floor(maxSizeMB / 3)) and N sorted
\* files, either one output <folder>_consolidated.pdf holds all N files
\* (filesPerDocument >= N), or ceil(N / filesPerDocument) outputs _01, _02, ...
\* hold the consecutive chunks of filesPerDocument files
C10_ChunkedOutputs ==
    ConsCleanRun =>
        LET N == Len(c_files)
            filesPerDocument == Max(1, c_max_size_mb \div 3)
            chunks == (N + filesPerDocument - 1) \div filesPerDocument
        IN  IF filesPerDocument >= N
            THEN /\ DOMAIN c_out = {ConsolidatedName}
                 /\ c_out[ConsolidatedName] = c_files
            ELSE /\ DOMAIN c_out = {NumberedName(k) : k \in 1..chunks}
                 /\ \A k \in 1..chunks :
                       c_out[NumberedName(k)] =
                           SubSeq(c_files, (k - 1) * filesPerDocument + 1,
                                  Min(k * filesPerDocument, N))

\* the sources that contribute a page to some output document
MergedSources ==
    {n \in Names : \E d \in DOMAIN c_out : \E k \in 1..Len(c_out[d]) :
                      c_out[d][k] = n}

\* no two files of the folder share a stem
DistinctStems == \A a \in c_dir : \A b \in c_dir : a[1] = b[1] => a = b

\* C11: after a run without failure the sources merged for the folder are
\* exactly the files whose searchable document was produced by the batch
C11_MergedAreBatchSuccesses ==
    (ConsCleanRun /\ DistinctStems) => MergedSources = c_conversion_result

\* C12: a document that _merge_pdfs wrote is still at its output path after
\* the compression pass, whatever the outcome of the pass, and it is the
\* merged document when the pass failed or raised
C12_FailSoftCompression ==
    \A n \in DOMAIN c_merged :
        /\ n \in DOMAIN c_out
        /\ c_compression[n] \in {"fail", "raise"} => c_out[n] = c_merged[n]

\* C12 witness: the consolidator has returned after the compression pass of
\* a merged document of several pages raised
C12_Witness ==
    /\ c_pc = "done"
    /\ \E n \in DOMAIN c_merged :
          c_compression[n] = "raise" /\ Len(c_merged[n]) >= 2

\* the files of the folder whose conversion to the format succeeded
SucceededFor(format_name) ==
    {m_files_info[k].input_file : k \in
        {x \in 1..Len(m_files_info) : /\ m_files_info[x].format = format_name
                                      /\ m_files_info[x].success}}

\* the files an aggregate record references
Referenced(name) == {m_mets[name][k] : k \in 1..Len(m_mets[name])}

\* the aggregator has returned and nothing failed inside it
MetCleanRun == m_pc = "done" /\ m_faults = 0

\* C13: the aggregate record written for a format references exactly the
\* source files whose conversion to that format succeeded
C13_RecordReferencesSuccesses ==
    \A k \in 1..Len(EnabledFormats) :
        EnabledFormats[k] \in DOMAIN m_mets =>
            Referenced(EnabledFormats[k]) = SucceededFor(EnabledFormats[k])

\* C14: after a run of the aggregator without failure there is a record for
\* an enabled format exactly when the format has a successful artifact in the
\* folder, whatever the format's identifier
C14_RecordPerSuccessfulFormat ==
    MetCleanRun =>
        \A k \in 1..Len(EnabledFormats) :
            EnabledFormats[k] \in DOMAIN m_mets
                <=> SucceededFor(EnabledFormats[k]) # {}

\* the texts of the spans of the recognition result whose confidence reaches
\* the threshold, in the order of the result
RECURSIVE SpansAtOrAbove(_, _)
SpansAtOrAbove(results, t) ==
    IF results = <<>> THEN <<>>
    ELSE (IF Head(results).confidence < t THEN <<>> ELSE <<Head(results).text>>)
         \o SpansAtOrAbove(Tail(results), t)

C16_TextLayerPlacement ==
    \A k \in 1..Len(o_canvas) :
        LET bbox == o_results[o_canvas[k].text].bbox
            dpi == PageDpi(o_dpi)
        IN  /\ o_page = PageSize(o_img, dpi)
            /\ FracEq(o_canvas[k].x, Frac(MinCoord(bbox, 1) * 72, dpi))
            /\ FracEq(o_canvas[k].y,
                      Frac((o_img[2] - MaxCoord(bbox, 2)) * 72, dpi))

\* C17: at most max_workers tasks are in progress at any moment, and with
\* max_workers > 1 and at least two tasks, two tasks are in progress at the
\* same time at some moment of a run that is not interrupted
C17_BoundedWorkerPool ==
    /\ [](Cardinality(w_running) <= w_max_workers)
    /\ (w_max_workers > 1 /\ w_ntasks >= 2)
          => <>(Cardinality(w_running) >= 2 \/ w_interrupted)

\* C18: when the program has exited after an interrupt that arrived once the
\* first task had been started, every task that was started has finished, no
\* task was started after the interrupt, and a report of the outcomes
\* recorded so far was shown
C18_CleanShutdown ==
    (w_pc = "exit" /\ w_interrupted /\ w_next > 1) =>
        /\ w_running = {}
        /\ Len(w_outcomes) = w_next - 1
        /\ w_report = <<w_outcomes>>

\* a postconverter failed or raised for folder f in this run
PostconverterFailed(f) ==
    \E k \in 1..Len(postRuns[f]) : postRuns[f][k][2] # "written"

\* C19: when convert_directory has returned its result, for every folder in
\* which a postconverter failed or raised, the folder's other postconverters
\* were run, every folder after it was handled, and the failure is part of
\* the result (the folder is in the result's error report)
C19_PostconversionContainment ==
    (pc \in {"returned", "exit"} /\ result.error = "absent") =>
        \A f \in 1..nfolders :
            PostconverterFailed(f) =>
                /\ Len(postRuns[f]) = Len(postconverters)
                /\ \A g \in f..nfolders :
                      g \in DOMAIN subfolder_results \cup error_report
                /\ f \in error_report

\* C20: a successful undo moves the last command of history to the end of the
\* undo history, and a successful redo right after it puts the command back:
\* both lists are then what they were before the undo
C20_UndoRedoRoundTrip ==
    /\ (k_last.method = "undo" /\ k_last.result) =>
            /\ k_last.history # <<>>
            /\ k_last.command = k_last.history[Len(k_last.history)]
            /\ k_history = PopLast(k_last.history)
            /\ k_undo_history = Append(k_last.undo_history, k_last.command)
    /\ (/\ k_prev.method = "undo" /\ k_prev.result
        /\ k_last.method = "redo" /\ k_last.result) =>
            /\ k_last.command = k_prev.command
            /\ k_history = k_prev.history
            /\ k_undo_history = k_prev.undo_history

\* an undo and a redo have both succeeded, in that order, on an invoker that
\* held two commands and an earlier undone one
C20_Witness ==
    /\ k_prev.method = "undo" /\ k_prev.result
    /\ k_last.method = "redo" /\ k_last.result
    /\ Len(k_prev.history) >= 2
    /\ k_prev.undo_history # <<>>
    /\ k_history = k_prev.history

\* C21: execute_command with a command whose execute() returns False or raises
\* returns False and leaves history and undo_history as they were; the command
\* is appended to history only when its execute() succeeded
C21_FailedExecuteFrame ==
    k_last.method = "execute" =>
        /\ ~k_last.result =>
                /\ k_history = k_last.history
                /\ k_undo_history = k_last.undo_history
        /\ k_last.result =>
                /\ k_history # <<>>
                /\ k_history[Len(k_history)] = k_last.command

\* an execute() has just failed on an invoker holding a command and an undone
\* one
C21_Witness ==
    /\ k_last.method = "execute" /\ ~k_last.result
    /\ k_last.history # <<>>
    /\ k_last.undo_history # <<>>
    /\ k_history = k_last.history

\* C22: undo_last_command on a command whose undo() returns False or raises
\* returns False and keeps the command as the last entry of history, with
\* undo_history unchanged
C22_FailedUndoKeepsCommand ==
    (k_last.method = "undo" /\ ~k_last.result) =>
        /\ k_history = k_last.history
        /\ k_undo_history = k_last.undo_history

\* the last Len(q) - n entries dropped from the front: q[-n:]
LastN(q, n) == IF Len(q) > n THEN SubSeq(q, Len(q) - n + 1, Len(q)) ELSE q

\* C23: len(history) <= max_history after every sequence of calls, and after
\* more than max_history successful executes (no undo or redo having moved a
\* command) history is the max_history most recent ones in execution order
C23_HistoryBound ==
    /\ Len(k_history) <= k_max_history
    /\ (~k_moved /\ Len(k_executed) > k_max_history) =>
            k_history = LastN(k_executed, k_max_history)

\* more executes than max_history have succeeded and two entries are kept
C23_Witness ==
    /\ ~k_moved
    /\ k_max_history >= 2
    /\ Len(k_executed) > k_max_history
    /\ k_history = LastN(k_executed, k_max_history)
    /\ k_history # k_executed

\* C24: when execute() of the i-th sub-command fails, MacroCommand.execute
\* returns False having called execute() on sub-commands 1..i in order and then
\* undo() once on each of i-1, ..., 1 in that order: the failing sub-command is
\* not undone and no later one is executed
C24_MacroRollback ==
    (q_pc = "done" /\ q_i <= q_n) =>
        /\ q_result = "false"
        /\ Len(q_calls) = 2 * q_i - 1
        /\ \A k \in 1..q_i : q_calls[k] = <<"execute", k>>
        /\ \A k \in 1..(q_i - 1) : q_calls[q_i + k] = <<"undo", q_i - k>>

\* the third sub-command failed and the two before it were rolled back, the
\* undo() of one of them raising
C24_Witness ==
    /\ q_pc = "done"
    /\ q_result = "false"
    /\ q_i = 3
    /\ q_execute[3] = "raise"
    /\ q_undo[2] = "raise"
    /\ q_calls[5] = <<"undo", 1>>

\* C25: a builder on which set_format_quality was called with a value outside
\* 1..100 for the current format fails validation: validate() returns False and
\* build() raises ValueError
C25_OutOfRangeQualityRejected ==
    b_rejected =>
        /\ b_validate \in {"none", "false"}
        /\ b_build \in {"none", "ValueError"}

\* C26: in every folder result returned by _process_subfolder for a folder
\* with N >= 1 files and M formats, conversions_successful + conversions_failed
\* = N*M, whatever the mix of converted, failed and skipped tasks
C26_FolderCounters ==
    \A f \in 1..nfolders :
        (LoopFinished(f) /\ nfiles[f] >= 1) =>
            /\ subfolder_results[f].success
            /\ subfolder_results[f].files_processed = nfiles[f]
            /\ subfolder_results[f].conversions_successful
                  + subfolder_results[f].conversions_failed = nfiles[f] * formats

\* a folder result covers a task skipped because its artifact existed and a
\* task converted in the same run
C26_Witness ==
    \E f \in 1..nfolders :
        /\ LoopFinished(f)
        /\ \E t \in TasksOf(f) : convCalls[<<f, t[1], t[2]>>] = 0
        /\ SuccessRecords(f) # {}
        /\ subfolder_results[f].conversions_failed >= 1
        /\ subfolder_results[f].conversions_successful >= 1

\* C27: in the final result every discovered folder (each holding source
\* files) is counted exactly once: subfolders_processed is their number and
\* subfolders_successful + subfolders_failed = subfolders_processed, also when
\* an error was raised for a folder after its task result was stored
C27_FolderAccounting ==
    (/\ pc \in {"returned", "exit"} /\ result.error = "absent"
     /\ \A f \in 1..nfolders : nfiles[f] >= 1) =>
        /\ result.subfolders_processed = nfolders
        /\ result.subfolders_successful + result.subfolders_failed
               = result.subfolders_processed

\* C28: convert returns True whenever the page document was created at the
\* output path, whether the compression pass is disabled, succeeds or fails,
\* and False only when input validation, the output directory, the engine or
\* the creation of the document failed
C28_ConvertResult ==
    v_pc = "done" =>
        /\ v_pdf # "absent" => v_result = "true"
        /\ v_result = "false" =>
               \/ ~v_valid_input
               \/ ~v_directory
               \/ v_engine = "missing"
               \/ v_create # "ok"

\* C29: when _consolidate_tiff_to_pdf returns, with any result, no temporary
\* document temp_<stem>.pdf remains in the output directory, including those
\* of files whose conversion or whose chunk merge failed
C29_TemporaryFileHygiene ==
    c_pc = "done" => \A st \in Stems : c_temp[st] = NoFile

\* the temporary documents are removed when nothing fails after they were
\* written: no conversion that fails after writing, no compressor exception
CleanupWithoutFailure ==
    (c_pc = "done" /\ c_faults = 0) => \A st \in Stems : c_temp[st] = NoFile

\* the number of entries of the record of original files that list file i
TimesListed(i) ==
    Cardinality({k \in 1..Len(m_mets["TIFF"]) : m_mets["TIFF"][k] = i})

\* C30: the folder's record of original source files (METS/TIFF.xml) lists
\* each source file of the folder exactly once, however many formats were
\* converted for it and whether or not the conversions succeeded
C30_OriginalsListedOnce ==
    "TIFF" \in DOMAIN m_mets => \A i \in MetFiles : TimesListed(i) = 1

====
